---- MODULE Spec2Model ----
(***************************************************************************)
(* Model of the MiniBeast collection-and-attestation pipeline:             *)
(*   - BoundedPool           (src/core/collection/pool.go)                 *)
(*   - Collector.CollectAll  (src/core/collection/collector.go)            *)
(*   - Writer.WriteAtomic    (src/core/io/writer.go)                       *)
(*   - Signer.Sign / Verify  (src/core/crypto)                             *)
(*   - platform.Collector    (src/core/platform, one capability call)      *)
(* Strings are modelled as naturals ordered as the strings are; 0 is the   *)
(* empty string.                                                           *)
(***************************************************************************)
EXTENDS Integers, Sequences, FiniteSets, TLC

\* ------------------------------------------------------------------ bounds
MaxWorkers == 2
MaxTasks == 3
MaxWaits == 2
MaxItems == 1
MaxName == 2
MaxTime == 2
MaxLen == 2
MaxByte == 2
MaxKeys == 2
MaxList == 3

VARIABLES
    workers,     \* BoundedPool.workers: N fixed at construction
    semaphore,   \* number of tokens held in the buffered channel p.semaphore
    wg,          \* counter of p.wg
    sub,         \* per task: position of the Submit call that carries it
    task,        \* per task: position of the goroutine started by Submit
    done,        \* the contexts whose Done channel is closed
    pc,          \* position of the goroutine that calls Wait
    waits,       \* number of Wait calls that have returned
    fresh,       \* no wg.Add has happened since the last Wait returned
    blockedOnce, \* the Submit calls that have waited in select with the pool full
    cfgPII,      \* c.config.PII
    idx,         \* CollectAll: index of the category the submit loop is at
    chans,       \* CollectAll: buffers of systemChan, networkChan, hardwareChan, piiChan
    errChan,     \* CollectAll: buffer of errChan
    res,         \* per category: what the capability call returned
    facts,       \* CollectAll: the local variable facts
    ret,         \* CollectAll: the returned pair (facts, err)
    wpc,         \* WriteAtomic: the statement the call is at
    proc,        \* the calling process: "run", "killed", or "crashed" (power lost)
    fd,          \* WriteAtomic: inode behind tempFile, 0 before the open
    payload,     \* WriteAtomic: the argument data
    written,     \* WriteAtomic: bytes of data that tempFile.Write has written
    werr,        \* WriteAtomic: the returned error
    prior,       \* content of the destination path before the call
    dirExists,   \* the parent directory exists
    dir,         \* directory as processes see it: name -> inode or 0
    ddir,        \* directory as it is on stable storage
    data,        \* inode -> content as processes see it
    synced,      \* inode -> content that is on stable storage
    rmerr,       \* WriteAtomic: the os.Remove of the cleanup failed (its error is dropped)
    spc,         \* signing scenario: "sign", "signed", "verified"
    keyPair,     \* Signer.keyPair
    sdata,       \* the payload handed to Sign
    signed,      \* what Sign returned: (signature, err)
    query,       \* the arguments of the last Verify call
    verified,    \* what the last Verify call returned
    prev,        \* an earlier CollectAll run: its category data and serialized result
    plat,        \* the platform whose collector is in use
    env,         \* what the host's files, commands and system calls yield
    op,          \* the capability operation called
    cpc,         \* position of the capability call: "idle", "body", "returned"
    pend,        \* commands the call has still to run
    child,       \* the subprocess of cmd.Output(): "none", "running", "exited"
    expired,     \* the contexts of the call whose Done channel is closed
    out,         \* what the capability call returned
    kpc,         \* key store: the statement the Save call is at
    kcall,       \* key store: the Save function called and its argument
    kret,        \* key store: the error the Save call returned
    kload,       \* key store: the last Load call, what it read and what it returned
    mode,        \* inode -> permission bits
    cfile,       \* the configuration file: absent, or what its bytes parse to
    cload,       \* what config.Load or config.LoadOrDefault returned
    collector,   \* the Collector that NewCollector built
    cstart,      \* CollectAll: the pool size and category timeout it has put to use
    engines,     \* inference: the Engine values made so far, by number
    llama,       \* llama.cpp: backend inits and frees, the models and contexts allocated
    summ,        \* the Summarizer: the engine it points to, and whether it is closed
    eret,        \* inference: the last call on an Engine or the Summarizer and its result
    cw           \* two concurrent WriteAtomic calls: per call its position and state

poolVars == <<workers, semaphore, wg, sub, task, done>>
harnessVars == <<pc, waits, fresh>>
collectVars == <<cfgPII, idx, chans, errChan, res, facts, ret>>
signVars == <<spc, keyPair, sdata, signed, query, verified>>
platVars == <<plat, env, op, cpc, pend, child, expired, out>>
keyVars == <<kpc, kcall, kret, kload, mode>>
configVars == <<cfile, cload, collector, cstart>>
engineVars == <<engines, llama, summ, eret>>
otherVars == <<prev, platVars, keyVars, configVars, engineVars, cw>>
writeVars == <<wpc, proc, fd, payload, written, werr, prior, dirExists, dir, ddir, data, synced,
              rmerr>>
vars == <<workers, semaphore, wg, sub, task, done, pc, waits, fresh, blockedOnce,
          cfgPII, idx, chans, errChan, res, facts, ret,
          wpc, proc, fd, payload, written, werr, prior, dirExists, dir, ddir, data, synced, rmerr,
          spc, keyPair, sdata, signed, query, verified,
          prev, plat, env, op, cpc, pend, child, expired, out,
          kpc, kcall, kret, kload, mode, cfile, cload, collector, cstart,
          engines, llama, summ, eret, cw>>

\* A nil error.
Nil == "nil"
\* A nil pointer, a returned error, and a non-nil pointer to the record v.
NilPtr == [kind |-> "nil"]
Err == [kind |-> "err"]
Ptr(v) == [kind |-> "ptr", v |-> v]
\* Nothing returned yet; returned without a call.
None == [kind |-> "none"]
Skipped == [kind |-> "skipped"]

\* ------------------------------------------------------------ BoundedPool
\* NewBoundedPool(maxWorkers): an empty semaphore of capacity maxWorkers and
\* a zero WaitGroup.
NewBoundedPool(maxWorkers, tasks) ==
    /\ workers = maxWorkers
    /\ semaphore = 0
    /\ wg = 0
    /\ sub = [t \in tasks |-> "idle"]
    /\ task = [t \in tasks |-> "none"]

\* cap(p.semaphore)
SemaphoreCap == workers

\* Submit is entered: the caller reaches the select statement.
SubmitCall(t) ==
    /\ sub[t] = "idle"
    /\ sub' = [sub EXCEPT ![t] = "select"]
    /\ UNCHANGED <<workers, semaphore, wg, task, done>>

\* A send that never blocks, as on a channel without a capacity limit.
CanAcquire_Unbounded == TRUE

\* The send case of the select can proceed: the channel has room.
CanAcquire == semaphore < SemaphoreCap

\* case p.semaphore <- struct{}{}: chosen whenever it can proceed, also when
\* ctx.Done() is ready too (select picks among the ready cases at random).
SubmitAcquire(t) ==
    /\ sub[t] = "select"
    /\ CanAcquire
    /\ semaphore' = semaphore + 1
    /\ sub' = [sub EXCEPT ![t] = "acquired"]
    /\ UNCHANGED <<workers, wg, task, done>>

\* case <-ctx.Done(): return ctx.Err()
SubmitCtxDone(t, c) ==
    /\ sub[t] = "select"
    /\ c \in done
    /\ sub' = [sub EXCEPT ![t] = "err"]
    /\ UNCHANGED <<workers, semaphore, wg, task, done>>

\* p.wg.Add(1); go func() {...}(); return nil
SubmitGo(t) ==
    /\ sub[t] = "acquired"
    /\ wg' = wg + 1
    /\ task' = [task EXCEPT ![t] = "running"]
    /\ sub' = [sub EXCEPT ![t] = "ok"]
    /\ UNCHANGED <<workers, semaphore, done>>

\* task() returns inside the goroutine (the task body is opaque to the pool).
TaskReturn(t) ==
    /\ task[t] = "running"
    /\ task' = [task EXCEPT ![t] = "exited"]
    /\ UNCHANGED <<workers, semaphore, wg, sub, done>>

\* A goroutine that forgets to give its slot back.
TaskRelease_KeepSlot(t) ==
    /\ task[t] = "exited"
    /\ task' = [task EXCEPT ![t] = "released"]
    /\ UNCHANGED <<workers, semaphore, wg, sub, done>>

\* defer func() { <-p.semaphore }(): the last deferred call runs first.
TaskRelease(t) ==
    /\ task[t] = "exited"
    /\ semaphore > 0
    /\ semaphore' = semaphore - 1
    /\ task' = [task EXCEPT ![t] = "released"]
    /\ UNCHANGED <<workers, wg, sub, done>>

\* defer p.wg.Done()
TaskDone(t) ==
    /\ task[t] = "released"
    /\ wg' = wg - 1
    /\ task' = [task EXCEPT ![t] = "done"]
    /\ UNCHANGED <<workers, semaphore, sub, done>>

\* A Wait that returns without looking at the counter.
Wait_NoBlock == TRUE

\* p.wg.Wait() returns exactly when the counter is zero.
Wait == wg = 0

\* The context c is cancelled or its deadline passes.
CancelCtx(c) ==
    /\ c \notin done
    /\ done' = done \cup {c}
    /\ UNCHANGED <<workers, semaphore, wg, sub, task>>

\* ------------------------------------- the pool under concurrent submitters
\* MaxTasks callers each submit one task with a context of their own; one more
\* goroutine calls Wait up to MaxWaits times.
PoolTasks == 1..MaxTasks

\* Variables of the other components, at rest.
NoCollect ==
    /\ cfgPII = FALSE
    /\ idx = 0
    /\ chans = <<>>
    /\ errChan = <<>>
    /\ res = <<>>
    /\ facts = NilPtr
    /\ ret = [facts |-> NilPtr, err |-> "pending"]
    /\ prev = None

NoPlatform ==
    /\ plat = "none"
    /\ env = <<>>
    /\ op = "none"
    /\ cpc = "idle"
    /\ pend = <<>>
    /\ child = "none"
    /\ expired = {}
    /\ out = None

NoWrite ==
    /\ wpc = "idle"
    /\ proc = "run"
    /\ fd = 0
    /\ payload = <<>>
    /\ written = 0
    /\ werr = Nil
    /\ prior = [present |-> FALSE]
    /\ dirExists = FALSE
    /\ dir = <<>>
    /\ ddir = <<>>
    /\ data = <<>>
    /\ synced = <<>>
    /\ rmerr = FALSE

NoPool ==
    /\ workers = 0
    /\ semaphore = 0
    /\ wg = 0
    /\ sub = <<>>
    /\ task = <<>>
    /\ done = {}
    /\ pc = "idle"
    /\ waits = 0
    /\ fresh = TRUE
    /\ blockedOnce = {}

NoSign ==
    /\ spc = "idle"
    /\ keyPair = NilPtr
    /\ sdata = <<>>
    /\ signed = [sig |-> NilPtr, err |-> Nil]
    /\ query = NilPtr
    /\ verified = FALSE

NoKeys ==
    /\ kpc = "idle"
    /\ kcall = None
    /\ kret = Nil
    /\ kload = None
    /\ mode = <<>>

NoConfig ==
    /\ cfile = None
    /\ cload = None
    /\ collector = None
    /\ cstart = None

NoEngine ==
    /\ engines = <<>>
    /\ llama = None
    /\ summ = None
    /\ eret = None

NoWriters == cw = <<>>

PoolFrame == <<collectVars, writeVars, signVars, otherVars>>

InitPool ==
    /\ \E n \in 1..MaxWorkers : NewBoundedPool(n, PoolTasks)
    /\ done = {}
    /\ pc = "idle"
    /\ waits = 0
    /\ fresh = TRUE
    /\ blockedOnce = {}
    /\ NoCollect
    /\ NoWrite
    /\ NoSign
    /\ NoPlatform
    /\ NoKeys
    /\ NoConfig
    /\ NoEngine
    /\ NoWriters

\* History: remember the calls that are in select behind a full pool.
Track ==
    blockedOnce' = blockedOnce \cup
        {t \in PoolTasks : sub'[t] = "select" /\ semaphore' >= workers'}

PSubmitCall == \E t \in PoolTasks : SubmitCall(t) /\ Track /\ UNCHANGED <<harnessVars, PoolFrame>>
PSubmitAcquire == \E t \in PoolTasks : SubmitAcquire(t) /\ Track /\ UNCHANGED <<harnessVars, PoolFrame>>
PSubmitCtxDone == \E t \in PoolTasks : SubmitCtxDone(t, t) /\ Track /\ UNCHANGED <<harnessVars, PoolFrame>>
PSubmitGo == \E t \in PoolTasks : SubmitGo(t) /\ fresh' = FALSE /\ Track /\ UNCHANGED <<pc, waits, PoolFrame>>
PTaskReturn == \E t \in PoolTasks : TaskReturn(t) /\ Track /\ UNCHANGED <<harnessVars, PoolFrame>>
PTaskRelease == \E t \in PoolTasks : TaskRelease(t) /\ Track /\ UNCHANGED <<harnessVars, PoolFrame>>
PTaskDone == \E t \in PoolTasks : TaskDone(t) /\ Track /\ UNCHANGED <<harnessVars, PoolFrame>>
PCancelCtx == \E t \in PoolTasks : CancelCtx(t) /\ Track /\ UNCHANGED <<harnessVars, PoolFrame>>

PWaitCall ==
    /\ pc = "idle"
    /\ waits < MaxWaits
    /\ pc' = "waiting"
    /\ UNCHANGED <<waits, fresh, blockedOnce>>
    /\ UNCHANGED <<poolVars, PoolFrame>>

PWaitReturn ==
    /\ pc = "waiting"
    /\ Wait
    /\ pc' = "idle"
    /\ waits' = waits + 1
    /\ fresh' = TRUE
    /\ UNCHANGED <<blockedOnce, poolVars, PoolFrame>>

NextPool ==
    \/ PSubmitCall
    \/ PSubmitAcquire
    \/ PSubmitCtxDone
    \/ PSubmitGo
    \/ PTaskReturn
    \/ PTaskRelease
    \/ PTaskDone
    \/ PCancelCtx
    \/ PWaitCall
    \/ PWaitReturn

SpecPool == InitPool /\ [][NextPool]_vars

\* Number of tasks inside task() at this instant.
Executing == Cardinality({t \in DOMAIN task : task[t] = "running"})

\* C1: with N >= 1 workers, however many Submit calls are issued and however
\* they interleave, at most N tasks are executing at any instant.
C1_BoundedConcurrency == Executing <= workers

\* C1 witness: more tasks were accepted or are being submitted than there are
\* workers, and all N workers are busy.
C1_Witness ==
    /\ Executing = workers
    /\ Cardinality({t \in DOMAIN sub : sub[t] # "idle"}) > workers

\* C7 (as claimed): once the context of a Submit call is done and the call has
\* not acquired a slot yet, the call never acquires one (it returns ctx.Err()
\* and the task is never started).
C7_ExpiredNeverStarts ==
    [][\A t \in PoolTasks :
          (sub[t] \in {"idle", "select"} /\ t \in done) => sub'[t] # "acquired"]_vars

\* The pool as above, where every started task returns and a goroutine that
\* can take a step eventually takes it.  Calling Submit or Wait and
\* cancelling a context are left to the callers.
PoolProgress ==
    \/ PSubmitAcquire
    \/ PSubmitCtxDone
    \/ PSubmitGo
    \/ PTaskReturn
    \/ PTaskRelease
    \/ PTaskDone
    \/ PWaitReturn

FairPool == WF_vars(PoolProgress)

SpecPoolFair == SpecPool /\ FairPool

\* A Submit call is blocked in its select: the pool is full.
Blocked(t) == sub[t] = "select" /\ ~CanAcquire

\* C8: a Submit call that finds all N slots occupied does not acquire a slot
\* or start its task while the pool stays full; once running tasks finish and
\* free a slot, the call starts its task and returns nil, unless its context
\* is done by then.
C8_BlocksUntilSlotFrees ==
    /\ [][\A t \in PoolTasks :
            Blocked(t) => (sub'[t] \notin {"acquired", "ok"} /\ task'[t] = "none")]_vars
    /\ \A t \in PoolTasks :
            Blocked(t) ~> ((sub[t] = "ok" /\ task[t] # "none") \/ t \in done)

\* C8 witness: a call that had to wait behind a full pool got its task started
\* with its context still live.
C8_Witness ==
    \E t \in blockedOnce :
        /\ sub[t] = "ok"
        /\ task[t] = "running"
        /\ t \notin done

\* C9: Wait returns only when every task accepted by Submit has finished, and
\* after a Wait has returned, with no submission since, the counter is still
\* zero, so the next Wait returns at once.
C9_WaitCoversAccepted ==
    /\ [][waits' # waits => \A t \in PoolTasks : sub[t] = "ok" => task[t] = "done"]_vars
    /\ []((waits > 0 /\ fresh) => Wait)

\* C9 witness: Wait has returned twice and an accepted task finished before.
C9_Witness ==
    /\ waits = 2
    /\ fresh
    /\ \E t \in PoolTasks : sub[t] = "ok" /\ task[t] = "done"

\* A Submit call is between its entry and its return.
SubmitInProgress == \E t \in PoolTasks : sub[t] \in {"select", "acquired"}

\* C39: when Wait returns and no Submit call is in progress, every semaphore
\* slot has been released, so N further sends on the semaphore proceed; a
\* Submit that failed holds no slot and started no task.
C39_SlotsReleasedAfterWait ==
    /\ [][(waits' # waits /\ ~SubmitInProgress) => semaphore' = 0]_vars
    /\ [](\A t \in PoolTasks : sub[t] = "err" => task[t] = "none")
    /\ []((wg = 0 /\ ~SubmitInProgress) => (semaphore = 0 /\ CanAcquire))

\* C39 witness: Wait has returned after tasks ran to completion and after a
\* Submit call failed on its context; no call is in progress.
C39_Witness ==
    /\ waits > 0
    /\ fresh
    /\ ~SubmitInProgress
    /\ \E t \in PoolTasks : sub[t] = "err"
    /\ \E t \in PoolTasks : sub[t] = "ok" /\ task[t] = "done"
    /\ semaphore = 0

\* ---------------------------------------------------------------- Facts
\* Strings that name things: 1..MaxName; 0 is "".
Names == 1..MaxName
SeqsUpTo(S, n) == UNION {[1..k -> S] : k \in 0..n}

\* Values a capability call of platform.Collector hands back: a pointer to a
\* record, or an error.
SystemInfos ==
    [OSName : 0..1, OSVersion : {1}, OSBuild : {1}, Timezone : {1}, Hostname : 0..1]
NetworkInterfaces == [Name : Names, IPAddress : {1}, MACAddress : {1}]
\* One known SSID per interface, in the order of the interfaces.
NetworkInfos ==
    {[Interfaces |-> [k \in 1..Len(u) |-> [Name |-> u[k], IPAddress |-> 1, MACAddress |-> 1]],
      WiFiSSIDs |-> u] : u \in SeqsUpTo(Names, MaxItems)}
HardwareInfos == [SerialNumber : {1}, HardwareUUID : 0..1]
Users == [Username : Names, FullName : Names, UID : {1}]
UserProfiles == [Username : Names, LastLogon : 1..MaxTime, LogonCount : 0..1]
\* The lists of one PIIInfo describe the same accounts.
PIIInfos ==
    {[Users |-> [k \in 1..Len(u) |-> [Username |-> u[k], FullName |-> 1, UID |-> 1]],
      LoggedInUsers |-> u,
      HomeDirs |-> u,
      RecentProfiles |-> [k \in 1..Len(u) |-> [Username |-> u[k], LastLogon |-> 1, LogonCount |-> 0]],
      PrimaryEmail |-> e] : u \in SeqsUpTo(Names, MaxItems), e \in {0}}

Categories == <<"system_info", "network_info", "hardware_info", "pii_info">>
CategorySet == {Categories[k] : k \in 1..Len(Categories)}

Infos(c) ==
    CASE c = "system_info" -> SystemInfos
      [] c = "network_info" -> NetworkInfos
      [] c = "hardware_info" -> HardwareInfos
      [] c = "pii_info" -> PIIInfos

Returns(c) == {Err} \cup {Ptr(v) : v \in Infos(c)}

\* sort.Slice(s, less) on a short slice is an insertion sort: elements are
\* ordered by less, elements that less does not order keep their input order.
SortSlice(s, less) ==
    LET n == Len(s)
        rank(k) == 1 + Cardinality({j \in 1..n :
                        j # k /\ (less[s[j], s[k]] \/ (~less[s[k], s[j]] /\ j < k))})
    IN [r \in 1..n |-> s[CHOOSE k \in 1..n : rank(k) = r]]

\* sort.Strings
SortStrings(s) == SortSlice(s, [a \in Names, b \in Names |-> a < b])

\* The less closures of sortFacts.
lessUsername == [a \in Users, b \in Users |-> a.Username < b.Username]
lessName == [a \in NetworkInterfaces, b \in NetworkInterfaces |-> a.Name < b.Name]
lessProfile ==
    [a \in UserProfiles, b \in UserProfiles |->
        IF a.Username = b.Username THEN a.LastLogon > b.LastLogon
        ELSE a.Username < b.Username]

\* A sort pass that leaves out the WiFi SSIDs.
sortFacts_NoSSIDs(f) ==
    [f EXCEPT !.Users = SortSlice(@, lessUsername),
              !.LoggedInUsers = SortStrings(@),
              !.HomeDirs = SortStrings(@),
              !.LocalIPs = SortSlice(@, lessName),
              !.MACAddresses = SortSlice(@, lessName),
              !.RecentProfiles = SortSlice(@, lessProfile)]

\* Collector.sortFacts
sortFacts(f) ==
    [f EXCEPT !.Users = SortSlice(@, lessUsername),
              !.LoggedInUsers = SortStrings(@),
              !.HomeDirs = SortStrings(@),
              !.WiFiSSIDs = SortStrings(@),
              !.LocalIPs = SortSlice(@, lessName),
              !.MACAddresses = SortSlice(@, lessName),
              !.RecentProfiles = SortSlice(@, lessProfile)]

\* A Validate that forgets the hardware UUID.
Validate_NoUUID(f) ==
    IF f.Hostname = 0 THEN "hostname"
    ELSE IF f.OSName = 0 THEN "os_name"
    ELSE Nil

\* Facts.Validate: the field that fails, or nil.
Validate(f) ==
    IF f.Hostname = 0 THEN "hostname"
    ELSE IF f.OSName = 0 THEN "os_name"
    ELSE IF f.HardwareUUID = 0 THEN "hardware_uuid"
    ELSE Nil

\* The Facts skeleton CollectAll starts from.
NewFacts ==
    [Timestamp |-> 0, CollectionDurationMs |-> 0, CollectorVersion |-> 1,
     Hostname |-> 0, MachineOwner |-> 0, ComputerName |-> 0,
     Users |-> <<>>, LoggedInUsers |-> <<>>, HomeDirs |-> <<>>,
     RecentProfiles |-> <<>>, PrimaryEmail |-> 0,
     LocalIPs |-> <<>>, MACAddresses |-> <<>>, WiFiSSIDs |-> <<>>,
     SerialNumber |-> 0, HardwareUUID |-> 0,
     OSName |-> 0, OSVersion |-> 0, OSBuild |-> 0, Timezone |-> 0]

\* Receive from a closed channel: the buffered value, or the zero value nil.
Recv(ch) == IF Len(ch) > 0 THEN Head(ch) ELSE NilPtr

mergeSystem(f, p) ==
    IF p = NilPtr THEN f
    ELSE LET systemInfo == p.v IN
         [f EXCEPT !.Hostname = systemInfo.Hostname,
                   !.ComputerName = systemInfo.Hostname,
                   !.OSName = systemInfo.OSName,
                   !.OSVersion = systemInfo.OSVersion,
                   !.OSBuild = systemInfo.OSBuild,
                   !.Timezone = systemInfo.Timezone]

mergeNetwork(f, p) ==
    IF p = NilPtr THEN f
    ELSE LET networkInfo == p.v IN
         [f EXCEPT !.LocalIPs = networkInfo.Interfaces,
                   !.MACAddresses = networkInfo.Interfaces,
                   !.WiFiSSIDs = networkInfo.WiFiSSIDs]

mergeHardware(f, p) ==
    IF p = NilPtr THEN f
    ELSE LET hardwareInfo == p.v IN
         [f EXCEPT !.SerialNumber = hardwareInfo.SerialNumber,
                   !.HardwareUUID = hardwareInfo.HardwareUUID]

mergePII(f, p) ==
    IF p = NilPtr THEN f
    ELSE LET piiInfo == p.v IN
         [f EXCEPT !.Users = piiInfo.Users,
                   !.LoggedInUsers = piiInfo.LoggedInUsers,
                   !.HomeDirs = piiInfo.HomeDirs,
                   !.RecentProfiles = piiInfo.RecentProfiles,
                   !.PrimaryEmail = piiInfo.PrimaryEmail,
                   !.MachineOwner = IF Len(piiInfo.Users) > 0
                                    THEN piiInfo.Users[1].Username ELSE @]

\* CollectAll after pool.Wait(): drain the closed channels into facts, sort.
Aggregate(f, ch) ==
    sortFacts(mergePII(mergeHardware(mergeNetwork(mergeSystem(f,
        Recv(ch["system_info"])), Recv(ch["network_info"])),
        Recv(ch["hardware_info"])), Recv(ch["pii_info"])))

\* ------------------------------------------------------ Collector.CollectAll
\* make(chan ..., 1) for the four result channels, make(chan error, 4).
ResultChanCap == 1
ErrChanCap == 4

\* The overall context handed to CollectAll and on to every Submit.
Ctx == "ctx"

CollectFrame == <<waits, fresh, blockedOnce, writeVars, signVars, otherVars>>

InitCollect ==
    /\ \E n \in 1..MaxWorkers : NewBoundedPool(n, CategorySet)
    /\ done = {}
    /\ pc = "running"
    /\ waits = 0
    /\ fresh = TRUE
    /\ cfgPII \in BOOLEAN
    /\ idx = 1
    /\ chans = [c \in CategorySet |-> <<>>]
    /\ errChan = <<>>
    /\ res = [c \in CategorySet |-> None]
    /\ facts = NewFacts
    /\ ret = [facts |-> NilPtr, err |-> "pending"]
    /\ blockedOnce = {}
    /\ prev = None
    /\ NoWrite
    /\ NoSign
    /\ NoPlatform
    /\ NoKeys
    /\ NoConfig
    /\ NoEngine
    /\ NoWriters

\* for _, cat := range categories { pool.Submit(ctx, cat.task) ... }
CSubmitCall ==
    /\ pc = "running"
    /\ idx <= Len(Categories)
    /\ SubmitCall(Categories[idx])
    /\ UNCHANGED <<pc, collectVars, CollectFrame>>

CSubmitAcquire ==
    /\ pc = "running"
    /\ idx <= Len(Categories)
    /\ SubmitAcquire(Categories[idx])
    /\ UNCHANGED <<pc, collectVars, CollectFrame>>

\* Submit returned nil: on to the next category.
CSubmitGo ==
    /\ pc = "running"
    /\ idx <= Len(Categories)
    /\ SubmitGo(Categories[idx])
    /\ idx' = idx + 1
    /\ UNCHANGED <<pc, cfgPII, chans, errChan, res, facts, ret, CollectFrame>>

\* Submit returned ctx.Err(): return nil, "failed to submit ...".
CSubmitErr ==
    /\ pc = "running"
    /\ idx <= Len(Categories)
    /\ SubmitCtxDone(Categories[idx], Ctx)
    /\ pc' = "returned"
    /\ ret' = [facts |-> NilPtr, err |-> "submit"]
    /\ UNCHANGED <<cfgPII, idx, chans, errChan, res, facts, CollectFrame>>

\* The pii_info task with PII collection disabled: return at once.
CTaskSkip ==
    /\ ~cfgPII
    /\ res["pii_info"] = None
    /\ TaskReturn("pii_info")
    /\ res' = [res EXCEPT !["pii_info"] = Skipped]
    /\ UNCHANGED <<pc, cfgPII, idx, chans, errChan, facts, ret, CollectFrame>>

\* A pii_info task without the configuration gate.
CTaskCall_NoGate(c) ==
    /\ task[c] = "running"
    /\ res[c] = None
    /\ \E r \in Returns(c) : res' = [res EXCEPT ![c] = r]
    /\ UNCHANGED <<poolVars, pc, cfgPII, idx, chans, errChan, facts, ret, CollectFrame>>

\* info, err := c.platformCollector.GetXInfo(catCtx) returns.
CTaskCall(c) ==
    /\ task[c] = "running"
    /\ res[c] = None
    /\ c = "pii_info" => cfgPII
    /\ \E r \in Returns(c) : res' = [res EXCEPT ![c] = r]
    /\ UNCHANGED <<poolVars, pc, cfgPII, idx, chans, errChan, facts, ret, CollectFrame>>

\* The send on result channels made without a buffer: nobody receives before
\* Wait has returned, so the send cannot proceed.
CanSend_Unbuffered(c) ==
    IF res[c] = Err THEN Len(errChan) < ErrChanCap ELSE FALSE

\* The channel send of a category task can proceed.
CanSend(c) ==
    IF res[c] = Err THEN Len(errChan) < ErrChanCap ELSE Len(chans[c]) < ResultChanCap

\* errChan <- fmt.Errorf(...); return   or   xChan <- info; then task() ends.
CTaskSend(c) ==
    /\ res[c] \notin {None, Skipped}
    /\ CanSend(c)
    /\ TaskReturn(c)
    /\ IF res[c] = Err
       THEN errChan' = Append(errChan, c) /\ UNCHANGED chans
       ELSE chans' = [chans EXCEPT ![c] = Append(@, res[c])] /\ UNCHANGED errChan
    /\ UNCHANGED <<pc, cfgPII, idx, res, facts, ret, CollectFrame>>

CTaskRelease(c) == TaskRelease(c) /\ UNCHANGED <<pc, collectVars, CollectFrame>>
CTaskDone(c) == TaskDone(c) /\ UNCHANGED <<pc, collectVars, CollectFrame>>
CCancel == CancelCtx(Ctx) /\ UNCHANGED <<pc, collectVars, CollectFrame>>

\* A CollectAll that gives up as soon as one category reported an error.
Result_ErrorsFatal(f, collectionErrors) ==
    IF Len(collectionErrors) > 0 THEN [facts |-> NilPtr, err |-> "collection"]
    ELSE IF Validate(f) # Nil THEN [facts |-> NilPtr, err |-> Validate(f)]
    ELSE [facts |-> f, err |-> Nil]

\* What CollectAll returns for the assembled facts: collectionErrors are
\* gathered and dropped, a validation failure is the only error.
Result(f, collectionErrors) ==
    IF Validate(f) # Nil THEN [facts |-> NilPtr, err |-> Validate(f)]
    ELSE [facts |-> f, err |-> Nil]

\* pool.Wait() returns; close and drain the channels, merge, sort, stamp the
\* duration, validate, return.  The two clock readings (time.Now() on entry
\* and on exit) are inputs that nothing observes before this step.
CWaitReturn ==
    /\ pc = "running"
    /\ idx > Len(Categories)
    /\ Wait
    /\ \E start \in 1..MaxTime, end \in 1..MaxTime :
          /\ start <= end
          /\ facts' = [Aggregate(facts, chans) EXCEPT !.Timestamp = start,
                                                     !.CollectionDurationMs = end - start]
    /\ ret' = Result(facts', errChan)
    /\ chans' = [c \in CategorySet |-> <<>>]
    /\ errChan' = <<>>
    /\ pc' = "returned"
    /\ UNCHANGED <<poolVars, cfgPII, idx, res, CollectFrame>>

NextCollect ==
    \/ CSubmitCall
    \/ CSubmitAcquire
    \/ CSubmitGo
    \/ CSubmitErr
    \/ CTaskSkip
    \/ \E c \in CategorySet : CTaskCall(c)
    \/ \E c \in CategorySet : CTaskSend(c)
    \/ \E c \in CategorySet : CTaskRelease(c)
    \/ \E c \in CategorySet : CTaskDone(c)
    \/ CCancel
    \/ CWaitReturn

SpecCollect == InitCollect /\ [][NextCollect]_vars

\* A goroutine that can take a step eventually takes it, and every capability
\* call returns.  Cancellation of the context is left to the environment.
CollectProgress ==
    \/ CSubmitCall
    \/ CSubmitAcquire
    \/ CSubmitGo
    \/ CSubmitErr
    \/ CTaskSkip
    \/ \E c \in CategorySet : CTaskCall(c)
    \/ \E c \in CategorySet : CTaskSend(c)
    \/ \E c \in CategorySet : CTaskRelease(c)
    \/ \E c \in CategorySet : CTaskDone(c)
    \/ CWaitReturn

FairCollect == WF_vars(CollectProgress)

SpecCollectFair == SpecCollect /\ FairCollect

Returned == pc = "returned" /\ DOMAIN task = CategorySet
Critical(f) == f.Hostname # 0 /\ f.OSName # 0 /\ f.HardwareUUID # 0

\* C2: CollectAll returns a Facts and no error, or no Facts and an error; a
\* returned Facts has a non-empty Hostname, OSName and HardwareUUID; and when
\* one of the three is empty after the merge, the result is a validation error
\* and no Facts.
C2_FactsOrError ==
    Returned =>
        /\ (ret.facts # NilPtr /\ ret.err = Nil) \/ (ret.facts = NilPtr /\ ret.err # Nil)
        /\ ret.facts # NilPtr => Critical(ret.facts)
        /\ (ret.err # "submit" /\ ~Critical(facts)) =>
               (ret.facts = NilPtr /\ ret.err \in {"hostname", "os_name", "hardware_uuid"})

\* C2 witness: the hardware category failed, the merge left HardwareUUID
\* empty, and CollectAll returned the validation error.
C2_Witness ==
    /\ Returned
    /\ res["hardware_info"] = Err
    /\ res["system_info"].kind = "ptr"
    /\ Critical([facts EXCEPT !.HardwareUUID = 1])
    /\ ret.err = "hardware_uuid"

Delivered ==
    /\ res["system_info"].kind = "ptr"
    /\ res["system_info"].v.Hostname # 0
    /\ res["system_info"].v.OSName # 0
    /\ res["hardware_info"].kind = "ptr"
    /\ res["hardware_info"].v.HardwareUUID # 0

NetworkEmpty(f) == f.LocalIPs = <<>> /\ f.MACAddresses = <<>> /\ f.WiFiSSIDs = <<>>
PIIEmpty(f) ==
    /\ f.Users = <<>> /\ f.LoggedInUsers = <<>> /\ f.HomeDirs = <<>>
    /\ f.RecentProfiles = <<>> /\ f.PrimaryEmail = 0 /\ f.MachineOwner = 0

Degraded ==
    /\ ret.err = Nil
    /\ ret.facts # NilPtr
    /\ Critical(ret.facts)
    /\ res["network_info"] = Err => NetworkEmpty(ret.facts)
    /\ res["pii_info"] = Err => PIIEmpty(ret.facts)

\* C3 (as claimed): if the network task or the PII task returned an error
\* while system and hardware delivered a hostname, an OS name and a hardware
\* UUID, CollectAll returns validated Facts and a nil error, the failed
\* category's fields empty.
C3_AlwaysDegrades ==
    (Returned /\ Delivered /\ (res["network_info"] = Err \/ res["pii_info"] = Err))
        => Degraded

\* C3 (amended): the same, provided no Submit call returned the context's
\* error, that is, all four categories were accepted by the pool.
C3_DegradesWhenSubmitted ==
    (Returned /\ Delivered /\ (res["network_info"] = Err \/ res["pii_info"] = Err)
        /\ ret.err # "submit")
        => Degraded

\* C3 witness: the network task failed, the PII task delivered users, and the
\* Facts came back.
C3_Witness ==
    /\ Returned
    /\ Delivered
    /\ res["network_info"] = Err
    /\ res["pii_info"].kind = "ptr"
    /\ ret.err = Nil
    /\ NetworkEmpty(ret.facts)
    /\ ret.facts.Users # <<>>

\* C10: a category task that is at its channel send can always proceed (a
\* result channel never holds a value when its one sender arrives, the error
\* channel never holds four), and CollectAll returns, whatever the pool size.
C10_NoDeadlock ==
    /\ [](DOMAIN task = CategorySet =>
            \A c \in CategorySet :
                (task[c] = "running" /\ res[c] \notin {None, Skipped}) => CanSend(c))
    /\ <>(pc = "returned")

\* C10 witness: CollectAll got past Wait with every category having sent, one
\* of them on the error channel, under a pool smaller than the category count.
C10_Witness ==
    /\ Returned
    /\ workers < Len(Categories)
    /\ ret.err # "submit"
    /\ \A c \in CategorySet : res[c] # None /\ task[c] = "done"
    /\ \E c \in CategorySet : res[c] = Err

\* C14: with PII collection disabled, GetPIIInfo is never called, no pii_info
\* error is recorded, nothing is put on piiChan, the PII fields of returned
\* Facts are empty, and the snapshot validates whenever system and hardware
\* delivered their critical fields and every category was submitted.
C14_PIIGate ==
    (DOMAIN task = CategorySet /\ ~cfgPII) =>
        /\ res["pii_info"] \in {None, Skipped}
        /\ \A k \in 1..Len(errChan) : errChan[k] # "pii_info"
        /\ chans["pii_info"] = <<>>
        /\ (pc = "returned" /\ ret.err = Nil) => PIIEmpty(ret.facts)
        /\ (pc = "returned" /\ Delivered /\ ret.err # "submit") => ret.err = Nil

\* C14 witness: PII disabled, the pii_info task ran and returned at once, the
\* other three delivered, and CollectAll returned Facts.
C14_Witness ==
    /\ Returned
    /\ ~cfgPII
    /\ res["pii_info"] = Skipped
    /\ task["pii_info"] = "done"
    /\ res["network_info"].kind = "ptr"
    /\ ret.err = Nil
    /\ PIIEmpty(ret.facts)
    /\ ~NetworkEmpty(ret.facts)

\* C32 (as claimed): whenever CollectAll has returned, with a Facts or with
\* an error, the error of a failed Submit included, none of the category
\* tasks it started is still inside its task function.
C32_NoTaskOutlivesReturn ==
    Returned => \A c \in CategorySet : task[c] # "running"

\* ------------------------------- CollectAll under a context that is done
\* CollectAll is called with a context that is already cancelled or expired:
\* ctx.Done() is ready from the first Submit on.
InitCancelled ==
    /\ \E n \in 1..MaxWorkers : NewBoundedPool(n, CategorySet)
    /\ done = {Ctx}
    /\ pc = "running"
    /\ waits = 0
    /\ fresh = TRUE
    /\ cfgPII \in BOOLEAN
    /\ idx = 1
    /\ chans = [c \in CategorySet |-> <<>>]
    /\ errChan = <<>>
    /\ res = [c \in CategorySet |-> None]
    /\ facts = NewFacts
    /\ ret = [facts |-> NilPtr, err |-> "pending"]
    /\ blockedOnce = {}
    /\ prev = None
    /\ NoWrite
    /\ NoSign
    /\ NoPlatform
    /\ NoKeys
    /\ NoConfig
    /\ NoEngine
    /\ NoWriters

NextCancelled ==
    \/ CSubmitCall
    \/ CSubmitAcquire
    \/ CSubmitGo
    \/ CSubmitErr
    \/ CTaskSkip
    \/ \E c \in CategorySet : CTaskCall(c)
    \/ \E c \in CategorySet : CTaskSend(c)
    \/ \E c \in CategorySet : CTaskRelease(c)
    \/ \E c \in CategorySet : CTaskDone(c)
    \/ CWaitReturn

SpecCancelled == InitCancelled /\ [][NextCancelled]_vars

\* C31 (as claimed): when the context handed to CollectAll is already done,
\* no capability operation is invoked and CollectAll returns an error.
C31_CancelledInvokesNothing ==
    /\ \A c \in DOMAIN res : res[c] \in {None, Skipped}
    /\ Returned => ret.err # Nil

\* ------------------------------------------------- two runs of CollectAll
\* json.MarshalIndent(facts, "", "  "): the fields in the order of the struct,
\* each under its json key; the two omitempty fields are left out when empty;
\* slices are written in the order they have.
Marshal(f) ==
    LET omitempty(k, v) == IF v = 0 THEN <<>> ELSE << <<k, v>> >>
    IN  << <<"timestamp", f.Timestamp>>,
           <<"collection_duration_ms", f.CollectionDurationMs>>,
           <<"collector_version", f.CollectorVersion>>,
           <<"hostname", f.Hostname>> >>
        \o omitempty("machine_owner", f.MachineOwner)
        \o << <<"computer_name", f.ComputerName>>,
              <<"users", f.Users>>,
              <<"logged_in_users", f.LoggedInUsers>>,
              <<"home_dirs", f.HomeDirs>>,
              <<"recent_profiles", f.RecentProfiles>> >>
        \o omitempty("primary_user_email", f.PrimaryEmail)
        \o << <<"local_ips", f.LocalIPs>>,
              <<"mac_addresses", f.MACAddresses>>,
              <<"wifi_known_ssids", f.WiFiSSIDs>>,
              <<"serial_number", f.SerialNumber>>,
              <<"hardware_uuid", f.HardwareUUID>>,
              <<"os_name", f.OSName>>,
              <<"os_version", f.OSVersion>>,
              <<"os_build", f.OSBuild>>,
              <<"timezone", f.Timezone>> >>

\* CollectAll has returned Facts; it is called once more, on this Collector or
\* on one with another pool size, with a pool and a context of its own, on a
\* host whose state has not changed.  The first run's category data, Facts
\* and serialized Facts are remembered.
CAgain ==
    /\ pc = "returned"
    /\ prev = None
    /\ ret.err = Nil
    /\ prev' = [kind |-> "run", data |-> res, facts |-> ret.facts,
                bytes |-> Marshal(ret.facts), workers |-> workers]
    /\ workers' \in 1..MaxWorkers
    /\ semaphore' = 0
    /\ wg' = 0
    /\ sub' = [c \in CategorySet |-> "idle"]
    /\ task' = [c \in CategorySet |-> "none"]
    /\ done' = {}
    /\ pc' = "running"
    /\ idx' = 1
    /\ chans' = [c \in CategorySet |-> <<>>]
    /\ errChan' = <<>>
    /\ res' = [c \in CategorySet |-> None]
    /\ facts' = NewFacts
    /\ ret' = [facts |-> NilPtr, err |-> "pending"]
    /\ UNCHANGED <<cfgPII, waits, fresh, blockedOnce, writeVars, signVars, platVars, keyVars,
                   configVars, engineVars, cw>>

\* A capability call of the second run: the host returns what it returned to
\* the first run.
RTaskCall(c) ==
    /\ CTaskCall(c)
    /\ prev # None => res'[c] = prev.data[c]

NextRepeat ==
    \/ CSubmitCall
    \/ CSubmitAcquire
    \/ CSubmitGo
    \/ CSubmitErr
    \/ CTaskSkip
    \/ \E c \in CategorySet : RTaskCall(c)
    \/ \E c \in CategorySet : CTaskSend(c)
    \/ \E c \in CategorySet : CTaskRelease(c)
    \/ \E c \in CategorySet : CTaskDone(c)
    \/ CCancel
    \/ CWaitReturn
    \/ CAgain

SpecRepeat == InitCollect /\ [][NextRepeat]_vars

\* C11: when two CollectAll runs got the same data from every capability call
\* and both returned Facts, the two Facts serialize to the same bytes.
C11_SameBytes ==
    (Returned /\ prev # None /\ ret.err = Nil /\ res = prev.data)
        => Marshal(ret.facts) = prev.bytes

\* Every field of Facts but Timestamp and CollectionDurationMs.
DataFields(f) == [k \in DOMAIN f \ {"Timestamp", "CollectionDurationMs"} |-> f[k]]

\* C30: two CollectAll runs whose four capability calls returned the same
\* (data, an error, or no call for a disabled PII category) return Facts with
\* the same data fields, whatever the order in which the tasks ran and
\* completed and whatever the pool sizes.
C30_FunctionOfResults ==
    (Returned /\ prev # None /\ ret.err = Nil /\ res = prev.data)
        => DataFields(ret.facts) = DataFields(prev.facts)

\* C30 witness: the second run used another pool size and took another
\* time, one category failed in both, and the two Facts carry the same data.
C30_Witness ==
    /\ Returned
    /\ prev # None
    /\ ret.err = Nil
    /\ res = prev.data
    /\ workers # prev.workers
    /\ \E c \in CategorySet : res[c] = Err
    /\ ret.facts.CollectionDurationMs # prev.facts.CollectionDurationMs
    /\ ~NetworkEmpty(ret.facts)
    /\ DataFields(ret.facts) = DataFields(prev.facts)

\* ------------------------------------- the sequential tail of CollectAll
\* Category data with lists of up to MaxList entries in any order, and
\* profiles with a LastLogon each: what an implementation of
\* platform.Collector may hand back.
LongNetworkInfos ==
    {[Interfaces |-> [k \in 1..Len(u) |-> [Name |-> u[k], IPAddress |-> 1, MACAddress |-> 1]],
      WiFiSSIDs |-> u] : u \in SeqsUpTo(Names, MaxList)}

LongPIIInfos ==
    UNION {{[Users |-> [k \in 1..Len(u) |-> [Username |-> u[k], FullName |-> 1, UID |-> 1]],
             LoggedInUsers |-> u,
             HomeDirs |-> u,
             RecentProfiles |-> [k \in 1..Len(u) |->
                 [Username |-> u[k], LastLogon |-> ts[k], LogonCount |-> 0]],
             PrimaryEmail |-> 0] : ts \in [1..Len(u) -> 1..MaxTime]}
           : u \in SeqsUpTo(Names, MaxList)}

LongReturns(c) ==
    CASE c = "network_info" -> {Err} \cup {Ptr(v) : v \in LongNetworkInfos}
      [] c = "pii_info" -> {Err} \cup {Ptr(v) : v \in LongPIIInfos}
      [] OTHER -> Returns(c)

\* CollectAll at pool.Wait(), every category task having finished: each task
\* has put its result on its channel or its error on errChan, or has skipped.
InitAssemble ==
    /\ workers = 1
    /\ semaphore = 0
    /\ wg = 0
    /\ sub = [c \in CategorySet |-> "ok"]
    /\ task = [c \in CategorySet |-> "done"]
    /\ done = {}
    /\ pc = "running"
    /\ waits = 0
    /\ fresh = TRUE
    /\ blockedOnce = {}
    /\ cfgPII \in BOOLEAN
    /\ idx = Len(Categories) + 1
    /\ \E s \in LongReturns("system_info"), n \in LongReturns("network_info"),
          h \in LongReturns("hardware_info"),
          p \in (IF cfgPII THEN LongReturns("pii_info") ELSE {Skipped}) :
          res = [c \in CategorySet |->
                    CASE c = "system_info" -> s
                      [] c = "network_info" -> n
                      [] c = "hardware_info" -> h
                      [] c = "pii_info" -> p]
    /\ chans = [c \in CategorySet |-> IF res[c].kind = "ptr" THEN <<res[c]>> ELSE <<>>]
    /\ errChan = SelectSeq(Categories, LAMBDA c : res[c] = Err)
    /\ facts = NewFacts
    /\ ret = [facts |-> NilPtr, err |-> "pending"]
    /\ prev = None
    /\ NoWrite
    /\ NoSign
    /\ NoPlatform
    /\ NoKeys
    /\ NoConfig
    /\ NoEngine
    /\ NoWriters

NextAssemble == CWaitReturn

SpecAssemble == InitAssemble /\ [][NextAssemble]_vars

Ascending(s) == \A i, j \in 1..Len(s) : i < j => s[i] <= s[j]
Descending(s) == \A i, j \in 1..Len(s) : i < j => s[i] >= s[j]
Usernames(s) == [k \in 1..Len(s) |-> s[k].Username]
IfaceNames(s) == [k \in 1..Len(s) |-> s[k].Name]
LastLogons(s) == [k \in 1..Len(s) |-> s[k].LastLogon]

\* C12: in the Facts CollectAll returns, Users is ascending by Username,
\* LoggedInUsers, HomeDirs and WiFiSSIDs are ascending, LocalIPs and
\* MACAddresses are ascending by interface Name, in whatever order the
\* capability calls delivered them.
C12_ListsSorted ==
    (Returned /\ ret.err = Nil) =>
        /\ Ascending(Usernames(ret.facts.Users))
        /\ Ascending(ret.facts.LoggedInUsers)
        /\ Ascending(ret.facts.HomeDirs)
        /\ Ascending(ret.facts.WiFiSSIDs)
        /\ Ascending(IfaceNames(ret.facts.LocalIPs))
        /\ Ascending(IfaceNames(ret.facts.MACAddresses))

\* C12 witness: both capability calls delivered their lists out of order, and
\* the returned Facts hold all the entries, those with equal keys included.
C12_Witness ==
    /\ Returned
    /\ ret.err = Nil
    /\ res["pii_info"].kind = "ptr"
    /\ res["network_info"].kind = "ptr"
    /\ ~Ascending(res["pii_info"].v.LoggedInUsers)
    /\ ~Ascending(res["network_info"].v.WiFiSSIDs)
    /\ Len(ret.facts.Users) = MaxList
    /\ Len(ret.facts.LocalIPs) = MaxList

Perms(s) ==
    {[k \in 1..Len(s) |-> s[p[k]]] :
        p \in {q \in [1..Len(s) -> 1..Len(s)] : \A i, j \in 1..Len(s) : q[i] = q[j] => i = j}}

\* Two records suffice for a tie; the lists are users or profiles.
InitSort ==
    /\ NoPool
    /\ cfgPII = TRUE
    /\ idx = 0
    /\ chans = <<>>
    /\ errChan = <<>>
    /\ res = <<>>
    /\ ret = [facts |-> NilPtr, err |-> "pending"]
    /\ \E u \in SeqsUpTo(Users, MaxList), r \in SeqsUpTo(UserProfiles, MaxItems + 1) :
          /\ u = <<>> \/ r = <<>>
          /\ facts = [NewFacts EXCEPT !.Users = u, !.RecentProfiles = r]
          /\ \E pu \in Perms(u), pr \in Perms(r) :
                prev = [kind |-> "unsorted",
                        facts |-> [NewFacts EXCEPT !.Users = pu, !.RecentProfiles = pr]]
    /\ NoWrite
    /\ NoSign
    /\ NoPlatform
    /\ NoKeys
    /\ NoConfig
    /\ NoEngine
    /\ NoWriters

SortFrame ==
    <<poolVars, waits, fresh, blockedOnce, cfgPII, idx, chans, errChan, res, ret,
      writeVars, signVars, platVars, keyVars, configVars, engineVars, cw>>

\* c.sortFacts(facts) on the first Facts.
SortFirst ==
    /\ pc = "idle"
    /\ facts' = sortFacts(facts)
    /\ pc' = "sorted"
    /\ UNCHANGED <<prev, SortFrame>>

\* c.sortFacts(facts) on the rearranged Facts.
SortSecond ==
    /\ prev.kind = "unsorted"
    /\ prev' = [kind |-> "sorted", facts |-> sortFacts(prev.facts)]
    /\ UNCHANGED <<pc, facts, SortFrame>>

NextSort == SortFirst \/ SortSecond

SpecSort == InitSort /\ [][NextSort]_vars

\* C34 (as claimed): sortFacts yields the same sequence for any two orderings
\* of the same records, records that share the sort key and differ in another
\* field included.
C34_PermutationInvariant ==
    (pc = "sorted" /\ prev.kind = "sorted") => facts = prev.facts

\* ------------------------------------------- platform.Collector on a host
\* One capability call against a host.  env holds what the host's files,
\* commands and system calls yield; a file's content is its text and whether
\* white space follows it; a command's output is its lines.
Unknown == MaxName + 1
Platforms == {"linux", "windows"}
Ops == {"GetSystemInfo", "GetHardwareInfo", "GetNetworkInfo"}

\* strings.TrimSpace
TrimSpace(raw) == raw.text

\* os.ReadFile: an error, or the content of the file (possibly empty).
FileReads == {Err} \cup {Ptr([text |-> t, space |-> sp]) : t \in 0..MaxName, sp \in BOOLEAN}

\* cmd.Output() of a wmic query: an error, or lines "key=val" and blank lines.
OutputLines(key) ==
    {[key |-> key, val |-> v] : v \in 0..MaxName} \cup {[key |-> "", val |-> 0]}
CmdOutputs(key) == {Err} \cup {Ptr(l) : l \in SeqsUpTo(OutputLines(key), MaxItems)}

\* os.Hostname()
HostnameResults == {Err} \cup {Ptr(n) : n \in Names}

\* os.ReadDir("/sys/class/net"), or the adapter sections of ipconfig /all.
InterfaceLists == {Err} \cup {Ptr(u) : u \in SeqsUpTo(Names, MaxItems)}

EnvDefault ==
    [hostname |-> Err, machineId |-> Err, dbusId |-> Err, dmi |-> Err,
     uuidOut |-> Err, serialOut |-> Err, netDir |-> Err]

\* The lookups an operation makes on a platform, each with what it may yield.
Envs(p, o) ==
    CASE o = "GetSystemInfo" ->
            {[EnvDefault EXCEPT !.hostname = h] : h \in HostnameResults}
      [] o = "GetHardwareInfo" /\ p = "linux" ->
            {[EnvDefault EXCEPT !.machineId = a, !.dbusId = b, !.dmi = c] :
                a \in FileReads, b \in FileReads, c \in FileReads}
      [] o = "GetHardwareInfo" /\ p = "windows" ->
            {[EnvDefault EXCEPT !.uuidOut = a, !.serialOut = b] :
                a \in CmdOutputs("UUID"), b \in CmdOutputs("SerialNumber")}
      [] o = "GetNetworkInfo" ->
            {[EnvDefault EXCEPT !.netDir = n] : n \in InterfaceLists}

\* A looked-up string with its error.
Value(v) == [v |-> v, err |-> FALSE]
Failure(v) == [v |-> v, err |-> TRUE]

\* linux Collector.getMachineID
getMachineID(e) ==
    IF e.machineId # Err THEN Value(TrimSpace(e.machineId.v))
    ELSE IF e.dbusId # Err THEN Value(TrimSpace(e.dbusId.v))
    ELSE Failure(0)

\* linux Collector.getDMISerial
getDMISerial(e) ==
    IF e.dmi = Err THEN Value(Unknown) ELSE Value(TrimSpace(e.dmi.v))

\* The value of the first line "key=..." of a command's output, or "".
FirstValue(lines, key) ==
    LET hits == {k \in 1..Len(lines) : lines[k].key = key}
    IN  IF hits = {} THEN 0
        ELSE lines[CHOOSE k \in hits : \A j \in hits : k <= j].val

\* windows Collector.getHardwareUUID
getHardwareUUID(e) ==
    IF e.uuidOut = Err THEN Failure(0) ELSE Value(FirstValue(e.uuidOut.v, "UUID"))

\* windows Collector.getSerialNumber
getSerialNumber(e) ==
    IF e.serialOut = Err THEN Failure(0)
    ELSE Value(FirstValue(e.serialOut.v, "SerialNumber"))

\* Collector.GetHardwareInfo: "unknown" unless the lookup returns no error.
GetHardwareInfo(p, e) ==
    LET uuid == IF p = "linux" THEN getMachineID(e) ELSE getHardwareUUID(e)
        serial == IF p = "linux" THEN getDMISerial(e) ELSE getSerialNumber(e)
    IN  Ptr([SerialNumber |-> IF serial.err THEN Unknown ELSE serial.v,
             HardwareUUID |-> IF uuid.err THEN Unknown ELSE uuid.v])

\* Collector.GetSystemInfo: the OS name is a literal, the hostname "unknown"
\* when os.Hostname() fails.
GetSystemInfo(p, e) ==
    Ptr([OSName |-> 1, OSVersion |-> 1, OSBuild |-> 1, Timezone |-> 1,
         Hostname |-> IF e.hostname = Err THEN Unknown ELSE e.hostname.v])

\* Collector.GetNetworkInfo: the interfaces found, sorted by name.
GetNetworkInfo(p, e) ==
    LET u == IF e.netDir = Err THEN <<>> ELSE e.netDir.v
    IN  Ptr([Interfaces |-> SortSlice(
                 [k \in 1..Len(u) |-> [Name |-> u[k], IPAddress |-> 1, MACAddress |-> 1]],
                 lessName),
             WiFiSSIDs |-> SortStrings(<<>>)])

\* What the operation hands back once its lookups are done.
Outcome(p, o, e) ==
    CASE o = "GetSystemInfo" -> GetSystemInfo(p, e)
      [] o = "GetHardwareInfo" -> GetHardwareInfo(p, e)
      [] o = "GetNetworkInfo" -> GetNetworkInfo(p, e)

\* The subprocesses the operation runs, in order, each through
\* exec.Command(...).Output().
Commands(p, o, e) ==
    CASE p = "linux" /\ o = "GetNetworkInfo" ->
            IF e.netDir = Err THEN <<>> ELSE [k \in 1..Len(e.netDir.v) |-> "ip"]
      [] p = "linux" /\ o # "GetNetworkInfo" -> <<>>
      [] p = "windows" /\ o = "GetSystemInfo" -> <<"cmd", "wmic">>
      [] p = "windows" /\ o = "GetHardwareInfo" -> <<"wmic", "wmic">>
      [] p = "windows" /\ o = "GetNetworkInfo" -> <<"ipconfig", "netsh">>

PlatformFrame ==
    <<poolVars, harnessVars, blockedOnce, collectVars, writeVars, signVars, prev, keyVars,
      configVars, engineVars, cw>>

InitPlatform ==
    /\ plat \in Platforms
    /\ op \in Ops
    /\ env \in Envs(plat, op)
    /\ cpc = "idle"
    /\ pend = <<>>
    /\ child = "none"
    /\ expired = {}
    /\ out = None
    /\ NoPool
    /\ NoCollect
    /\ NoWrite
    /\ NoSign
    /\ NoKeys
    /\ NoConfig
    /\ NoEngine
    /\ NoWriters

\* The category task calls the operation with catCtx, the child of ctx that
\* context.WithTimeout(ctx, c.timeout) made.
PCall ==
    /\ cpc = "idle"
    /\ cpc' = "body"
    /\ pend' = Commands(plat, op, env)
    /\ UNCHANGED <<plat, env, op, child, expired, out, PlatformFrame>>

\* cmd := exec.Command(...); cmd.Output() starts the subprocess.  The context
\* is not handed to it.
PExec ==
    /\ cpc = "body"
    /\ pend # <<>>
    /\ child = "none"
    /\ child' = "running"
    /\ UNCHANGED <<plat, env, op, cpc, pend, expired, out, PlatformFrame>>

\* The subprocess finishes, when it does.
PChildExit ==
    /\ child = "running"
    /\ child' = "exited"
    /\ UNCHANGED <<plat, env, op, cpc, pend, expired, out, PlatformFrame>>

\* cmd.Output() returns: it waits for the subprocess to finish.
POutput ==
    /\ cpc = "body"
    /\ child = "exited"
    /\ child' = "none"
    /\ pend' = Tail(pend)
    /\ UNCHANGED <<plat, env, op, cpc, expired, out, PlatformFrame>>

\* return info, nil
PReturn ==
    /\ cpc = "body"
    /\ pend = <<>>
    /\ child = "none"
    /\ out' = Outcome(plat, op, env)
    /\ cpc' = "returned"
    /\ UNCHANGED <<plat, env, op, pend, child, expired, PlatformFrame>>

\* The category's timeout elapses: catCtx is done.
PTimeout ==
    /\ "catCtx" \notin expired
    /\ expired' = expired \cup {"catCtx"}
    /\ UNCHANGED <<plat, env, op, cpc, pend, child, out, PlatformFrame>>

\* The context handed to CollectAll is cancelled: it and its child are done.
PCancel ==
    /\ "ctx" \notin expired
    /\ expired' = expired \cup {"ctx", "catCtx"}
    /\ UNCHANGED <<plat, env, op, cpc, pend, child, out, PlatformFrame>>

NextPlatform ==
    \/ PCall
    \/ PExec
    \/ PChildExit
    \/ POutput
    \/ PReturn
    \/ PTimeout
    \/ PCancel

SpecPlatform == InitPlatform /\ [][NextPlatform]_vars

\* The goroutine of the category task takes its steps.  When a subprocess
\* finishes, and whether a context expires, is up to the host.
PlatformProgress ==
    \/ PCall
    \/ PExec
    \/ POutput
    \/ PReturn

FairPlatform == WF_vars(PlatformProgress)

SpecPlatformFair == SpecPlatform /\ FairPlatform

\* The hardware UUID lookup yields no data: the command or every file read
\* fails, the file read is empty, or the output has no UUID line.
NoUUIDData ==
    IF plat = "linux"
    THEN \/ env.machineId # Err /\ TrimSpace(env.machineId.v) = 0
         \/ env.machineId = Err /\ env.dbusId # Err /\ TrimSpace(env.dbusId.v) = 0
         \/ env.machineId = Err /\ env.dbusId = Err
    ELSE \/ env.uuidOut = Err
         \/ env.uuidOut # Err /\ FirstValue(env.uuidOut.v, "UUID") = 0

\* C15: an operation that returns successfully reports a non-empty hostname,
\* OS name and hardware UUID; where the lookup yielded no data the field is
\* "unknown".
C15_NeverEmpty ==
    (cpc = "returned" /\ out.kind = "ptr") =>
        /\ op = "GetSystemInfo" =>
              /\ out.v.Hostname # 0
              /\ out.v.OSName # 0
              /\ env.hostname = Err => out.v.Hostname = Unknown
        /\ op = "GetHardwareInfo" =>
              /\ out.v.HardwareUUID # 0
              /\ NoUUIDData => out.v.HardwareUUID = Unknown

\* C16: once the per-category context is done while the capability call is
\* in flight, the call returns, whether or not its subprocess ever finishes.
C16_ReturnsOnExpiry ==
    (cpc = "body" /\ "catCtx" \in expired) ~> (cpc = "returned")

\* ------------------------------------------------------- Writer.WriteAtomic
\* The file system is the directory (name -> inode) and the inodes' content,
\* each as processes see it and as it is on stable storage.  The kernel
\* writes dirty data and directory changes back at times of its choosing;
\* fsync forces them.  Killing the process leaves the visible state as it is;
\* losing power leaves what is on stable storage.
Payloads == SeqsUpTo(1..MaxByte, MaxLen)
Inodes == 1..3
NoFile == [present |-> FALSE]
File(content) == [present |-> TRUE, content |-> content]
FileAt(d, dt, name) == IF d[name] = 0 THEN NoFile ELSE File(dt[d[name]])

destPath == "path"

\* A writer that opens the destination itself instead of a temp file.
tempPath_InPlace == "path"

\* tempPath := path + ".tmp"
tempPath == "path.tmp"

PathNames == {"path", "path.tmp"}

\* os.Remove(name)
Remove(d, name) == [d EXCEPT ![name] = 0]

\* A rename that links the new name and leaves the old one in place.
Rename_Copy(d, from, to) == [d EXCEPT ![to] = d[from]]

\* os.Rename(from, to): the entry of to is replaced in one step.
Rename(d, from, to) == IF from = to THEN d ELSE [d EXCEPT ![to] = d[from], ![from] = 0]

InitWrite ==
    /\ wpc = "mkdir"
    /\ proc = "run"
    /\ fd = 0
    /\ payload \in Payloads
    /\ written = 0
    /\ werr = "pending"
    /\ prior \in {NoFile} \cup {File(c) : c \in SeqsUpTo(1..MaxByte, 1)}
    /\ \E stale \in BOOLEAN :
          /\ dir = [n \in PathNames |->
                      IF n = "path" THEN (IF prior.present THEN 1 ELSE 0)
                      ELSE (IF stale THEN 2 ELSE 0)]
          /\ dirExists \in (IF prior.present \/ stale THEN {TRUE} ELSE BOOLEAN)
    /\ ddir = dir
    /\ data = [i \in Inodes |->
                 IF i = 1 /\ prior.present THEN prior.content
                 ELSE IF i = 2 THEN <<MaxByte>> ELSE <<>>]
    /\ synced = data
    /\ rmerr = FALSE
    /\ NoPool
    /\ NoCollect
    /\ NoSign
    /\ NoPlatform
    /\ NoKeys
    /\ NoConfig
    /\ NoEngine
    /\ NoWriters

WriteFrame == <<poolVars, harnessVars, blockedOnce, collectVars, signVars, otherVars>>

\* os.Remove(tempPath), its error dropped: the entry is gone, or the removal
\* failed and the entry is still there.
RemoveTemp ==
    \E ok \in BOOLEAN :
        /\ rmerr' = ~ok
        /\ dir' = IF ok THEN Remove(dir, tempPath) ELSE dir

\* Return err from WriteAtomic.
WReturn(err) ==
    /\ werr' = err
    /\ wpc' = "done"

\* os.MkdirAll(dir, 0755)
WMkdirAll ==
    /\ proc = "run" /\ wpc = "mkdir"
    /\ \/ dirExists' = TRUE /\ wpc' = "open" /\ UNCHANGED werr
       \/ ~dirExists /\ WReturn("mkdir") /\ UNCHANGED dirExists
    /\ UNCHANGED <<proc, fd, payload, written, prior, dir, ddir, data, synced, rmerr, WriteFrame>>

\* os.OpenFile(tempPath, O_WRONLY|O_CREATE|O_TRUNC, perm)
WOpenFile ==
    /\ proc = "run" /\ wpc = "open"
    /\ \/ /\ wpc' = "write"
          /\ IF dir[tempPath] # 0
             THEN /\ fd' = dir[tempPath]
                  /\ data' = [data EXCEPT ![dir[tempPath]] = <<>>]
                  /\ UNCHANGED dir
             ELSE /\ fd' = 3
                  /\ dir' = [dir EXCEPT ![tempPath] = 3]
                  /\ UNCHANGED data
          /\ UNCHANGED werr
       \/ WReturn("open") /\ UNCHANGED <<fd, dir, data>>
    /\ UNCHANGED <<proc, payload, written, prior, dirExists, ddir, synced, rmerr, WriteFrame>>

\* tempFile.Write(data) under way: the next byte reaches the file.
WWrite ==
    /\ proc = "run" /\ wpc = "write"
    /\ written < Len(payload)
    /\ data' = [data EXCEPT ![fd] = Append(@, payload[written + 1])]
    /\ written' = written + 1
    /\ UNCHANGED <<wpc, proc, fd, payload, werr, prior, dirExists, dir, ddir, synced, rmerr, WriteFrame>>

\* A Write that returns nil after a short write.
WWriteOk_Short ==
    /\ proc = "run" /\ wpc = "write"
    /\ wpc' = "sync"
    /\ UNCHANGED <<proc, fd, payload, written, werr, prior, dirExists, dir, ddir, data,
                   synced, rmerr, WriteFrame>>

\* tempFile.Write(data) returns nil.
WWriteOk ==
    /\ proc = "run" /\ wpc = "write"
    /\ written = Len(payload)
    /\ wpc' = "sync"
    /\ UNCHANGED <<proc, fd, payload, written, werr, prior, dirExists, dir, ddir, data,
                   synced, rmerr, WriteFrame>>

\* tempFile.Write(data) returns an error: Close, Remove(tempPath), return.
WWriteFail ==
    /\ proc = "run" /\ wpc = "write"
    /\ RemoveTemp
    /\ WReturn("write")
    /\ UNCHANGED <<proc, fd, payload, written, prior, dirExists, ddir, data, synced, WriteFrame>>

\* A Sync that returns nil without flushing anything.
WSync_NoFlush ==
    /\ proc = "run" /\ wpc = "sync"
    /\ wpc' = "close"
    /\ UNCHANGED <<proc, fd, payload, written, werr, prior, dirExists, dir, ddir, data,
                   synced, rmerr, WriteFrame>>

\* tempFile.Sync(); on error Close, Remove(tempPath), return.
WSync ==
    /\ proc = "run" /\ wpc = "sync"
    /\ \/ /\ synced' = [synced EXCEPT ![fd] = data[fd]]
          /\ wpc' = "close"
          /\ UNCHANGED <<werr, dir, rmerr>>
       \/ /\ RemoveTemp
          /\ WReturn("sync")
          /\ UNCHANGED synced
    /\ UNCHANGED <<proc, fd, payload, written, prior, dirExists, ddir, data, WriteFrame>>

\* A failed Close that returns without removing the temp file.
WClose_NoCleanup ==
    /\ proc = "run" /\ wpc = "close"
    /\ \/ wpc' = "rename" /\ UNCHANGED werr
       \/ WReturn("close")
    /\ UNCHANGED <<proc, fd, payload, written, prior, dirExists, dir, ddir, data, synced,
                   rmerr, WriteFrame>>

\* tempFile.Close(); on error Remove(tempPath), return.
WClose ==
    /\ proc = "run" /\ wpc = "close"
    /\ \/ wpc' = "rename" /\ UNCHANGED <<werr, dir, rmerr>>
       \/ RemoveTemp /\ WReturn("close")
    /\ UNCHANGED <<proc, fd, payload, written, prior, dirExists, ddir, data, synced, WriteFrame>>

\* os.Rename(tempPath, path); on error Remove(tempPath), return.
WRename ==
    /\ proc = "run" /\ wpc = "rename"
    /\ \/ /\ dir[tempPath] # 0
          /\ dir' = Rename(dir, tempPath, destPath)
          /\ wpc' = "syncdir"
          /\ UNCHANGED <<werr, rmerr>>
       \/ RemoveTemp /\ WReturn("rename")
    /\ UNCHANGED <<proc, fd, payload, written, prior, dirExists, ddir, data, synced, WriteFrame>>

\* A directory fsync whose failure is swallowed.
WSyncDirectory_Silent ==
    /\ proc = "run" /\ wpc = "syncdir"
    /\ \/ ddir' = dir /\ WReturn(Nil)
       \/ WReturn(Nil) /\ UNCHANGED ddir
    /\ UNCHANGED <<proc, fd, payload, written, prior, dirExists, dir, data, synced, rmerr,
                   WriteFrame>>

\* syncDirectory(dir): nil, or the "warning" error.
WSyncDirectory ==
    /\ proc = "run" /\ wpc = "syncdir"
    /\ \/ ddir' = dir /\ WReturn(Nil)
       \/ WReturn("syncdir") /\ UNCHANGED ddir
    /\ UNCHANGED <<proc, fd, payload, written, prior, dirExists, dir, data, synced, rmerr, WriteFrame>>

\* The kernel writes back part of an inode's dirty data.
FlushData ==
    /\ proc # "crashed"
    /\ \E i \in Inodes, k \in 0..MaxLen :
          /\ k <= Len(data[i])
          /\ synced[i] # SubSeq(data[i], 1, k)
          /\ synced[i] # data[i]
          /\ synced' = [synced EXCEPT ![i] = SubSeq(data[i], 1, k)]
    /\ UNCHANGED <<wpc, proc, fd, payload, written, werr, prior, dirExists, dir, ddir, data,
                   rmerr, WriteFrame>>

\* The kernel writes the directory back.
FlushDir ==
    /\ proc # "crashed"
    /\ ddir # dir
    /\ ddir' = dir
    /\ UNCHANGED <<wpc, proc, fd, payload, written, werr, prior, dirExists, dir, data, synced, rmerr,
                   WriteFrame>>

\* The process is killed inside WriteAtomic.
Kill ==
    /\ proc = "run" /\ wpc # "done"
    /\ proc' = "killed"
    /\ UNCHANGED <<wpc, fd, payload, written, werr, prior, dirExists, dir, ddir, data, synced, rmerr,
                   WriteFrame>>

\* Power is lost: what was not on stable storage is gone.
PowerLoss ==
    /\ proc # "crashed"
    /\ proc' = "crashed"
    /\ dir' = ddir
    /\ data' = synced
    /\ UNCHANGED <<wpc, fd, payload, written, werr, prior, dirExists, ddir, synced, rmerr, WriteFrame>>

NextWrite ==
    \/ WMkdirAll
    \/ WOpenFile
    \/ WWrite
    \/ WWriteOk
    \/ WWriteFail
    \/ WSync
    \/ WClose
    \/ WRename
    \/ WSyncDirectory
    \/ FlushData
    \/ FlushDir
    \/ Kill
    \/ PowerLoss

SpecWrite == InitWrite /\ [][NextWrite]_vars

Dest == FileAt(dir, data, destPath)

\* C4: at every step of WriteAtomic, and after the process is killed or power
\* is lost at any step, the destination path is as it was before the call
\* (absent, or its complete prior content) or holds the complete new payload.
C4_CrashAtomic == wpc # "idle" => Dest \in {prior, File(payload)}

\* C4 witness: power was lost after the rename and before the directory
\* fsync, the temp file having been partly written earlier, and the
\* destination holds the new payload in place of different prior content.
C4_Witness ==
    /\ proc = "crashed"
    /\ wpc = "syncdir"
    /\ prior.present
    /\ Len(payload) = MaxLen
    /\ Dest = File(payload)
    /\ Dest # prior

Temp == FileAt(dir, data, tempPath)
FailedStep == werr \in {"write", "sync", "close", "rename"}

\* C17: when WriteAtomic returns nil, the destination holds exactly the
\* payload, no <path>.tmp entry is left, and the parent directory exists; the
\* temp file is never open without the parent directory existing.
C17_NilMeansWritten ==
    /\ fd # 0 => dirExists
    /\ (proc = "run" /\ wpc = "done" /\ werr = Nil) =>
          /\ Dest = File(payload)
          /\ ~Temp.present
          /\ dirExists

\* C17 witness: WriteAtomic returned nil having replaced different prior
\* content with a payload of full length.
C17_Witness ==
    /\ proc = "run"
    /\ wpc = "done"
    /\ werr = Nil
    /\ prior.present
    /\ prior # File(payload)
    /\ Len(payload) = MaxLen
    /\ Dest = File(payload)

\* C18 (as claimed): when the write, the fsync, the close or the rename
\* failed, WriteAtomic has returned that error, <path>.tmp is gone and the
\* destination is as it was before the call.
C18_FailureCleansUp ==
    (proc = "run" /\ wpc = "done" /\ FailedStep) =>
        /\ werr # Nil
        /\ ~Temp.present
        /\ Dest = prior

\* C18 (amended): the same, <path>.tmp being gone unless the os.Remove of the
\* cleanup itself failed.
C18_FailureCleansUpIfRemoved ==
    (proc = "run" /\ wpc = "done" /\ FailedStep) =>
        /\ werr # Nil
        /\ ~rmerr => ~Temp.present
        /\ Dest = prior

\* C18 witness: the rename failed over existing prior content, the cleanup
\* removed the fully written temp file, and the destination is untouched.
C18_Witness ==
    /\ proc = "run"
    /\ wpc = "done"
    /\ werr = "rename"
    /\ ~rmerr
    /\ ~Temp.present
    /\ prior.present
    /\ prior # File(payload)
    /\ Dest = prior

\* C19: the call moves from statement to statement in the order mkdir, open,
\* write, sync, close, rename, syncdir (or returns); the destination entry
\* changes only in the rename step; and the rename is performed only with
\* the whole payload in the temp file and on stable storage.
C19_StepOrder ==
    [][/\ wpc' # wpc =>
            \/ wpc' = "done"
            \/ <<wpc, wpc'>> \in {<<"mkdir", "open">>, <<"open", "write">>,
                   <<"write", "sync">>, <<"sync", "close">>, <<"close", "rename">>,
                   <<"rename", "syncdir">>}
       /\ (proc' = "run" /\ dir'[destPath] # dir[destPath]) =>
            (wpc = "rename" /\ wpc' = "syncdir")
       /\ (wpc = "rename" /\ wpc' = "syncdir") =>
            /\ written = Len(payload)
            /\ data[fd] = payload
            /\ synced[fd] = payload
            /\ dir'[destPath] = fd]_vars

\* C19 witness: the rename has been done, after a payload of full length was
\* written and flushed, and the directory fsync is next.
C19_Witness ==
    /\ proc = "run"
    /\ wpc = "syncdir"
    /\ Len(payload) = MaxLen
    /\ synced[fd] = payload
    /\ dir[destPath] = fd
    /\ ddir # dir

\* C20: when the directory fsync step ends with the directory not on stable
\* storage, WriteAtomic returns a non-nil error; and when it returns that
\* error the destination holds the complete payload and no <path>.tmp is left.
C20_DirSyncFailureReported ==
    [][(wpc = "syncdir" /\ wpc' = "done") =>
          /\ ddir' # dir' => werr' # Nil
          /\ werr' # Nil =>
                /\ werr' = "syncdir"
                /\ Dest' = File(payload)
                /\ ~Temp'.present]_vars

\* C20 witness: only the directory fsync failed; the new payload is visible
\* at the destination in place of the prior content, but the rename is not
\* yet on stable storage.
C20_Witness ==
    /\ proc = "run"
    /\ wpc = "done"
    /\ werr = "syncdir"
    /\ Dest = File(payload)
    /\ prior # File(payload)
    /\ ~Temp.present
    /\ ddir # dir

\* ------------------------------------------------------ Signer.Sign / Verify
\* Byte strings of the crypto package are modelled by their length and what
\* they stand for.  The library primitives are ideal: a digest determines the
\* data it was computed from, and a signature verifies under a public key
\* exactly when it was made over that message with the matching private key.
SignatureSize == 64
PublicKeySize == 32
PrivateKeySize == 64

\* ed25519.GenerateKey: the k-th key pair.
GenerateKeyPair(k) ==
    Ptr([PublicKey |-> [len |-> PublicKeySize, id |-> k],
         PrivateKey |-> [len |-> PrivateKeySize, id |-> k]])

\* sha256.Sum256(data)
Sum256(d) == [sha256 |-> d]

\* ed25519.Sign(privateKey, message)
edSign(privateKey, message) ==
    [len |-> SignatureSize, signer |-> privateKey.id, msg |-> message]

\* ed25519.Verify(publicKey, message, sig)
edVerify(publicKey, message, sig) ==
    /\ sig.len = SignatureSize
    /\ sig.signer = publicKey.id
    /\ sig.msg = message

\* ed25519.Verify panics when len(publicKey) is not PublicKeySize.
edVerifyPanics(publicKey) == publicKey.len # PublicKeySize

\* ed25519.Sign panics when len(privateKey) is not PrivateKeySize.
edSignPanics(privateKey) == privateKey.len # PrivateKeySize

\* make([]byte, SignatureSize): 64 zero bytes, a signature by nobody.
ZeroSignature == [len |-> SignatureSize, signer |-> 0, msg |-> Sum256(<<>>)]

\* A Sign that signs the data itself instead of its digest.
Sign_NoHash(kp, d) ==
    IF kp = NilPtr \/ kp.v.PrivateKey = NilPtr
    THEN [sig |-> NilPtr, err |-> "no private key available"]
    ELSE [sig |-> edSign(kp.v.PrivateKey, d), err |-> Nil]

\* A Sign that checks the key pair but not its private key, and signs with the
\* empty key.
Sign_NoKeyCheck(kp, d) ==
    IF kp = NilPtr
    THEN [sig |-> NilPtr, err |-> "no private key available"]
    ELSE LET hash == Sum256(d)
             key == IF kp.v.PrivateKey = NilPtr THEN [len |-> 0, id |-> 0]
                    ELSE kp.v.PrivateKey
         IN [sig |-> edSign(key, hash), err |-> Nil]

\* Signer.Sign
Sign(kp, d) ==
    IF kp = NilPtr \/ kp.v.PrivateKey = NilPtr
    THEN [sig |-> NilPtr, err |-> "no private key available"]
    ELSE LET hash == Sum256(d)
         IN [sig |-> edSign(kp.v.PrivateKey, hash), err |-> Nil]

\* Sign does not return: its guard lets the key through and the call of
\* ed25519.Sign it reaches panics.
SignPanics(kp, d) ==
    /\ kp # NilPtr
    /\ kp.v.PrivateKey # NilPtr
    /\ edSignPanics(kp.v.PrivateKey)

\* A Verify that checks the signature against a digest of nothing.
Verify_IgnoresData(publicKey, d, signature) ==
    IF signature.len # SignatureSize THEN FALSE
    ELSE \E e \in Payloads : edVerify(publicKey, Sum256(e), signature)

\* Verify
Verify(publicKey, d, signature) ==
    IF signature.len # SignatureSize THEN FALSE
    ELSE LET hash == Sum256(d)
         IN edVerify(publicKey, hash, signature)

\* Verify does not return: the call of ed25519.Verify it reaches panics.
VerifyPanics(publicKey, d, signature) ==
    /\ signature.len = SignatureSize
    /\ edVerifyPanics(publicKey)

InitSign ==
    /\ spc = "sign"
    /\ \E k \in 1..MaxKeys : keyPair = GenerateKeyPair(k)
    /\ sdata \in Payloads
    /\ signed = [sig |-> NilPtr, err |-> Nil]
    /\ query = NilPtr
    /\ verified = FALSE
    /\ NoPool
    /\ NoCollect
    /\ NoWrite
    /\ NoPlatform
    /\ NoKeys
    /\ NoConfig
    /\ NoEngine
    /\ NoWriters

SignFrame == <<poolVars, harnessVars, blockedOnce, collectVars, writeVars, otherVars>>

\* signature, err := signer.Sign(testData); spc = "sign_panicked" when the
\* call panics.
DoSign ==
    /\ spc = "sign"
    /\ IF SignPanics(keyPair, sdata)
       THEN spc' = "sign_panicked" /\ signed' = signed
       ELSE spc' = "signed" /\ signed' = Sign(keyPair, sdata)
    /\ UNCHANGED <<keyPair, sdata, query, verified, SignFrame>>

\* The signatures a verifier may be handed: the one Sign made, 64 zero bytes,
\* and the one Sign made with its last byte cut off.
Candidates ==
    {signed.sig, ZeroSignature, [signed.sig EXCEPT !.len = SignatureSize - 1]}

\* The public keys a verifier may be handed: the generated ones, and each of
\* them with its last byte cut off.
PublicKeys ==
    UNION {{GenerateKeyPair(k).v.PublicKey,
            [GenerateKeyPair(k).v.PublicKey EXCEPT !.len = PublicKeySize - 1]} :
           k \in 1..MaxKeys}

\* crypto.Verify(publicKey, data, signature) on any public key, any data and
\* any candidate signature; spc = "panicked" when the call panics.
DoVerify ==
    /\ spc \in {"signed", "verified"}
    /\ signed.err = Nil
    /\ \E pk \in PublicKeys, d \in Payloads, sg \in Candidates :
          /\ query' = [publicKey |-> pk, data |-> d, signature |-> sg]
          /\ IF VerifyPanics(pk, d, sg)
             THEN spc' = "panicked" /\ verified' = verified
             ELSE spc' = "verified" /\ verified' = Verify(pk, d, sg)
    /\ UNCHANGED <<keyPair, sdata, signed, SignFrame>>

NextSign == DoSign \/ DoVerify

SpecSign == InitSign /\ [][NextSign]_vars

\* ed25519.PrivateKey{}: a private key that is not nil and has no bytes.
EmptyKey == [len |-> 0, id |-> 0]

\* A Signer made by NewSigner from any key pair a caller can hand it: a
\* generated one, one that holds only the public key, one whose private key
\* is an empty slice, or none.
KeyPairs ==
    {NilPtr}
        \cup {GenerateKeyPair(k) : k \in 1..MaxKeys}
        \cup {Ptr([GenerateKeyPair(k).v EXCEPT !.PrivateKey = NilPtr]) : k \in 1..MaxKeys}
        \cup {Ptr([GenerateKeyPair(k).v EXCEPT !.PrivateKey = EmptyKey]) : k \in 1..MaxKeys}

InitSigner ==
    /\ spc = "sign"
    /\ keyPair \in KeyPairs
    /\ sdata \in Payloads
    /\ signed = [sig |-> NilPtr, err |-> Nil]
    /\ query = NilPtr
    /\ verified = FALSE
    /\ NoPool
    /\ NoCollect
    /\ NoWrite
    /\ NoPlatform
    /\ NoKeys
    /\ NoConfig
    /\ NoEngine
    /\ NoWriters

SpecSigner == InitSigner /\ [][NextSign]_vars

\* C5: Sign on a generated key pair returns a 64-byte signature, and Verify
\* with the pair's public key, the same payload and that signature is true.
C5_SignVerifyRoundTrip ==
    /\ spc \in {"signed", "verified"} =>
          (signed.err = Nil /\ signed.sig # NilPtr /\ signed.sig.len = 64)
    /\ (spc = "verified" /\ query.publicKey = keyPair.v.PublicKey
          /\ query.data = sdata /\ query.signature = signed.sig) => verified

\* C5 witness: a non-empty payload was signed and verified with the signer's
\* public key.
C5_Witness ==
    /\ spc = "verified"
    /\ Len(sdata) = MaxLen
    /\ query = [publicKey |-> keyPair.v.PublicKey, data |-> sdata, signature |-> signed.sig]
    /\ verified

\* C6: Verify with the signer's public key and the signature of P is false
\* for every payload other than P, and false for a signature of 64 zero bytes.
C6_RejectsOtherData ==
    spc = "verified" =>
        /\ (query.signature = signed.sig /\ query.data # sdata) => ~verified
        /\ query.signature = ZeroSignature => ~verified

\* C6 witness: the signature of P was checked against P with one byte
\* changed, under the signer's own public key, and rejected.
C6_Witness ==
    /\ spc = "verified"
    /\ query.publicKey = keyPair.v.PublicKey
    /\ query.signature = signed.sig
    /\ Len(query.data) = Len(sdata)
    /\ Cardinality({k \in 1..Len(sdata) : query.data[k] # sdata[k]}) = 1
    /\ ~verified

\* ------------------------------------------- key and signature persistence
\* SavePrivateKey, SavePublicKey, SaveSignature and their loaders, on the file
\* system of the writer: a directory and inodes, each as processes see it and
\* as it is on stable storage.  A file's content is a prefix of a byte string:
\* the string it is cut from and the number of its bytes that are there.

\* pem.EncodeToMemory(&pem.Block{Type: t, Bytes: bytes})
pemEncode(t, bytes) == [fmt |-> "pem", type |-> t, bytes |-> bytes]

\* The bytes of a signature as they are.
rawBytes(sig) == [fmt |-> "raw", bytes |-> sig]

\* []byte("not a PEM file")
NotPEM == [fmt |-> "text"]

\* Length of the PEM text of n bytes under type t: the BEGIN line, the base64
\* characters in lines of 64, the END line.
PemLen(t, n) ==
    LET chars == 4 * ((n + 2) \div 3)
        lines == (chars + 63) \div 64
        typeLen == IF t = "PRIVATE KEY" THEN 11 ELSE 10
    IN (11 + typeLen + 6) + chars + lines + (9 + typeLen + 6)

\* len(b) of a byte string
ByteLen(w) ==
    CASE w.fmt = "pem" -> PemLen(w.type, w.bytes.len)
      [] w.fmt = "raw" -> w.bytes.len
      [] w.fmt = "text" -> 14
      [] OTHER -> 0

EmptyContent == [of |-> [fmt |-> "none"], len |-> 0]
Prefix(w, n) == IF n = 0 THEN EmptyContent ELSE [of |-> w, len |-> n]
Whole(w) == Prefix(w, ByteLen(w))

\* The lengths a write or a write-back of the byte string w can stop at.
CutPoints(w) == {0, ByteLen(w) \div 2, ByteLen(w)}

\* pem.Decode(data): the first block, nil when the data holds no complete one.
pemDecode(c) ==
    IF c.of.fmt = "pem" /\ c.len = ByteLen(c.of)
    THEN Ptr([Type |-> c.of.type, Bytes |-> c.of.bytes])
    ELSE NilPtr

\* A LoadPrivateKey that accepts a block of any type.
LoadPrivateKey_AnyType(f) ==
    IF ~f.present THEN [val |-> NilPtr, err |-> "read"]
    ELSE LET block == pemDecode(f.content)
         IN IF block = NilPtr THEN [val |-> NilPtr, err |-> "decode"]
            ELSE IF block.v.Bytes.len # PrivateKeySize THEN [val |-> NilPtr, err |-> "size"]
            ELSE [val |-> block.v.Bytes, err |-> Nil]

\* LoadPrivateKey, given what is at the path
LoadPrivateKey(f) ==
    IF ~f.present THEN [val |-> NilPtr, err |-> "read"]
    ELSE LET block == pemDecode(f.content)
         IN IF block = NilPtr THEN [val |-> NilPtr, err |-> "decode"]
            ELSE IF block.v.Type # "PRIVATE KEY" THEN [val |-> NilPtr, err |-> "type"]
            ELSE IF block.v.Bytes.len # PrivateKeySize THEN [val |-> NilPtr, err |-> "size"]
            ELSE [val |-> block.v.Bytes, err |-> Nil]

\* LoadPublicKey, given what is at the path
LoadPublicKey(f) ==
    IF ~f.present THEN [val |-> NilPtr, err |-> "read"]
    ELSE LET block == pemDecode(f.content)
         IN IF block = NilPtr THEN [val |-> NilPtr, err |-> "decode"]
            ELSE IF block.v.Type # "PUBLIC KEY" THEN [val |-> NilPtr, err |-> "type"]
            ELSE IF block.v.Bytes.len # PublicKeySize THEN [val |-> NilPtr, err |-> "size"]
            ELSE [val |-> block.v.Bytes, err |-> Nil]

\* Signature(data) of file content that is not the bytes of one signature.
OtherBytes(c) == [len |-> c.len, signer |-> 0, msg |-> c.of]

\* LoadSignature, given what is at the path
LoadSignature(f) ==
    IF ~f.present THEN [val |-> NilPtr, err |-> "read"]
    ELSE IF f.content.len # SignatureSize THEN [val |-> NilPtr, err |-> "size"]
    ELSE IF f.content.of.fmt = "raw" /\ f.content.len = ByteLen(f.content.of)
         THEN [val |-> f.content.of.bytes, err |-> Nil]
         ELSE [val |-> OtherBytes(f.content), err |-> Nil]

Loaders == {"LoadPrivateKey", "LoadPublicKey", "LoadSignature"}
Load(fn, f) ==
    CASE fn = "LoadPrivateKey" -> LoadPrivateKey(f)
      [] fn = "LoadPublicKey" -> LoadPublicKey(f)
      [] fn = "LoadSignature" -> LoadSignature(f)

\* A SavePrivateKey that labels its block as a public key.
SaveBytes_OneType(call) ==
    CASE call.fn = "SavePrivateKey" -> pemEncode("PUBLIC KEY", call.arg)
      [] call.fn = "SavePublicKey" -> pemEncode("PUBLIC KEY", call.arg)
      [] call.fn = "SaveSignature" -> rawBytes(call.arg)

\* The bytes each Save function hands to os.WriteFile
SaveBytes(call) ==
    CASE call.fn = "SavePrivateKey" -> pemEncode("PRIVATE KEY", call.arg)
      [] call.fn = "SavePublicKey" -> pemEncode("PUBLIC KEY", call.arg)
      [] call.fn = "SaveSignature" -> rawBytes(call.arg)

\* The permission bits each Save function hands to os.WriteFile
SavePerm(call) == IF call.fn = "SavePrivateKey" THEN "0600" ELSE "0644"

\* The byte slices a caller can hand to SavePrivateKey and SavePublicKey (both
\* types are []byte): generated public and private keys, and a private key
\* with its last byte cut off.
KeyBytes ==
    UNION {{GenerateKeyPair(k).v.PublicKey, GenerateKeyPair(k).v.PrivateKey,
            [GenerateKeyPair(k).v.PrivateKey EXCEPT !.len = PrivateKeySize - 1]} :
           k \in 1..MaxKeys}

\* The signatures a caller can hand to SaveSignature: one made by each key,
\* and each with its last byte cut off.
SigBytes ==
    UNION {{edSign(GenerateKeyPair(k).v.PrivateKey, Sum256(<<>>)),
            [edSign(GenerateKeyPair(k).v.PrivateKey, Sum256(<<>>))
                EXCEPT !.len = SignatureSize - 1]} :
           k \in 1..MaxKeys}

SaveCalls ==
    [fn : {"SavePrivateKey", "SavePublicKey"}, arg : KeyBytes]
        \cup [fn : {"SaveSignature"}, arg : SigBytes]

\* What the path holds before the call: nothing, text that is no PEM, or the
\* key file of an earlier SavePrivateKey.
OldFiles ==
    {NoFile, File(Whole(NotPEM)),
     File(Whole(pemEncode("PRIVATE KEY", GenerateKeyPair(1).v.PrivateKey)))}

\* A file left at <path>.tmp by someone else: none, or one with these bits.
StaleModes == {"none", "0644", "0600"}

InitKeys ==
    /\ kpc = "start"
    /\ kcall \in SaveCalls
    /\ kret = "pending"
    /\ kload = None
    /\ proc = "run"
    /\ fd = 0
    /\ written = 0
    /\ rmerr = FALSE
    /\ prior \in OldFiles
    /\ \E stale \in StaleModes :
          /\ dir = [n \in PathNames |->
                      IF n = "path" THEN (IF prior.present THEN 1 ELSE 0)
                      ELSE (IF stale # "none" THEN 2 ELSE 0)]
          /\ mode = [i \in Inodes |-> IF i = 2 /\ stale # "none" THEN stale ELSE "0644"]
    /\ ddir = dir
    /\ data = [i \in Inodes |->
                 IF i = 1 /\ prior.present THEN prior.content
                 ELSE IF i = 2 THEN Whole(NotPEM) ELSE EmptyContent]
    /\ synced = data
    /\ dirExists = TRUE
    /\ wpc = "idle"
    /\ payload = <<>>
    /\ werr = Nil
    /\ NoPool
    /\ NoCollect
    /\ NoSign
    /\ NoPlatform
    /\ NoConfig
    /\ NoEngine
    /\ NoWriters

KeyFrame ==
    <<poolVars, harnessVars, blockedOnce, collectVars, signVars, prev, platVars, configVars, engineVars, cw,
      wpc, payload, werr, prior, dirExists>>

\* Return err from the Save function.
KReturn(err) ==
    /\ kret' = err
    /\ kpc' = "done"

\* A SaveSignature without its size check.
KOpen_NoSizeCheck ==
    /\ proc = "run" /\ kpc = "start"
    /\ \/ /\ kpc' = "write"
          /\ IF dir[tempPath] # 0
             THEN /\ fd' = dir[tempPath]
                  /\ data' = [data EXCEPT ![dir[tempPath]] = EmptyContent]
                  /\ UNCHANGED <<dir, mode>>
             ELSE /\ fd' = 3
                  /\ dir' = [dir EXCEPT ![tempPath] = 3]
                  /\ data' = [data EXCEPT ![3] = EmptyContent]
                  /\ mode' = [mode EXCEPT ![3] = SavePerm(kcall)]
          /\ UNCHANGED kret
       \/ KReturn("write") /\ UNCHANGED <<fd, dir, data, mode>>
    /\ UNCHANGED <<proc, written, rmerr, ddir, synced, kcall, kload, KeyFrame>>

\* The start of a Save function: the size check of SaveSignature, the encoding,
\* and the open of os.WriteFile(tempPath, data, perm), which is
\* OpenFile(tempPath, O_WRONLY|O_CREATE|O_TRUNC, perm): perm is given to a file
\* that the open creates, and a file that is already there keeps its bits.
KOpen ==
    /\ proc = "run" /\ kpc = "start"
    /\ IF kcall.fn = "SaveSignature" /\ kcall.arg.len # SignatureSize
       THEN KReturn("size") /\ UNCHANGED <<fd, dir, data, mode>>
       ELSE \/ /\ kpc' = "write"
               /\ IF dir[tempPath] # 0
                  THEN /\ fd' = dir[tempPath]
                       /\ data' = [data EXCEPT ![dir[tempPath]] = EmptyContent]
                       /\ UNCHANGED <<dir, mode>>
                  ELSE /\ fd' = 3
                       /\ dir' = [dir EXCEPT ![tempPath] = 3]
                       /\ data' = [data EXCEPT ![3] = EmptyContent]
                       /\ mode' = [mode EXCEPT ![3] = SavePerm(kcall)]
               /\ UNCHANGED kret
            \/ KReturn("write") /\ UNCHANGED <<fd, dir, data, mode>>
    /\ UNCHANGED <<proc, written, rmerr, ddir, synced, kcall, kload, KeyFrame>>

\* os.WriteFile: f.Write(data) under way, the file grows to the next cut point.
KWrite ==
    /\ proc = "run" /\ kpc = "write"
    /\ written < ByteLen(SaveBytes(kcall))
    /\ \E n \in CutPoints(SaveBytes(kcall)) :
          /\ n > written
          /\ \A m \in CutPoints(SaveBytes(kcall)) : m > written => n <= m
          /\ written' = n
          /\ data' = [data EXCEPT ![fd] = Prefix(SaveBytes(kcall), n)]
    /\ UNCHANGED <<proc, fd, rmerr, dir, ddir, synced, kpc, kcall, kret, kload, mode, KeyFrame>>

\* os.WriteFile: f.Write returns an error; the file is closed and the error
\* returned, the temp file stays.
KWriteFail ==
    /\ proc = "run" /\ kpc = "write"
    /\ KReturn("write")
    /\ UNCHANGED <<proc, fd, written, rmerr, dir, ddir, data, synced, kcall, kload, mode,
                   KeyFrame>>

\* os.WriteFile: every byte is written; f.Close() returns nil or an error.
KClose ==
    /\ proc = "run" /\ kpc = "write"
    /\ written = ByteLen(SaveBytes(kcall))
    /\ \/ kpc' = "rename" /\ UNCHANGED kret
       \/ KReturn("write")
    /\ UNCHANGED <<proc, fd, written, rmerr, dir, ddir, data, synced, kcall, kload, mode,
                   KeyFrame>>

\* os.Rename(tempPath, path); on error os.Remove(tempPath); return.
KRename ==
    /\ proc = "run" /\ kpc = "rename"
    /\ \/ /\ dir[tempPath] # 0
          /\ dir' = Rename(dir, tempPath, destPath)
          /\ KReturn(Nil)
          /\ UNCHANGED rmerr
       \/ RemoveTemp /\ KReturn("rename")
    /\ UNCHANGED <<proc, fd, written, ddir, data, synced, kcall, kload, mode, KeyFrame>>

\* The kernel writes back an inode's data up to a cut point.
KFlushData ==
    /\ proc # "crashed"
    /\ kpc # "idle"
    /\ \E i \in Inodes :
          /\ synced[i] # data[i]
          /\ \E n \in CutPoints(data[i].of) :
                /\ n <= data[i].len
                /\ synced' = [synced EXCEPT ![i] = Prefix(data[i].of, n)]
                /\ synced' # synced
    /\ UNCHANGED <<proc, fd, written, rmerr, dir, ddir, data, keyVars, KeyFrame>>

\* The process is killed inside the Save function.
KKill ==
    /\ proc = "run" /\ kpc \notin {"idle", "done"}
    /\ proc' = "killed"
    /\ UNCHANGED <<fd, written, rmerr, dir, ddir, data, synced, keyVars, KeyFrame>>

\* A loader is called on the path, by the process after the Save function
\* returned or by a later process.
KLoad ==
    /\ kpc = "done" \/ proc # "run"
    /\ \E fn \in Loaders :
          kload' = [fn |-> fn, read |-> FileAt(dir, data, destPath),
                    ret |-> Load(fn, FileAt(dir, data, destPath))]
    /\ UNCHANGED <<proc, fd, written, rmerr, dir, ddir, data, synced, kpc, kcall, kret, mode,
                   KeyFrame>>

NextKeys ==
    \/ KOpen
    \/ KWrite
    \/ KWriteFail
    \/ KClose
    \/ KRename
    \/ KFlushData
    \/ FlushDir
    \/ KKill
    \/ PowerLoss
    \/ KLoad

SpecKeys == InitKeys /\ [][NextKeys]_vars

\* C21: Sign on a Signer without a private key (no key pair, or a key pair whose
\* private key is absent) returns an error and no signature.
C21_NoKeyNoSignature ==
    (spc # "sign" /\ (keyPair = NilPtr \/ keyPair.v.PrivateKey = NilPtr)) =>
        (signed.err # Nil /\ signed.sig = NilPtr)

\* C21 witness: Sign was called on a key pair that holds only a public key.
C21_Witness ==
    /\ spc = "signed"
    /\ keyPair # NilPtr
    /\ keyPair.v.PrivateKey = NilPtr
    /\ signed.err # Nil

\* The key pair holds a private key of PrivateKeySize bytes.
WellFormed(kp) ==
    /\ kp # NilPtr
    /\ kp.v.PrivateKey # NilPtr
    /\ kp.v.PrivateKey.len = PrivateKeySize

\* C37 (as claimed): Sign on a Signer whose key pair lacks a well-formed
\* 64-byte private key, a non-nil private key of another length included,
\* returns an error and no signature; it does not panic.
C37_SignErrorsOnBadKey ==
    (spc # "sign" /\ ~WellFormed(keyPair)) =>
        (spc # "sign_panicked" /\ signed.err # Nil /\ signed.sig = NilPtr)

\* C22: Verify always returns, and returns false for a signature that is not
\* 64 bytes long or a public key that is not 32 bytes long.
C22_VerifyNeverThrows ==
    /\ spc # "panicked"
    /\ (spc = "verified"
          /\ (query.signature.len # 64 \/ query.publicKey.len # 32)) => ~verified

\* C23: LoadPrivateKey fails on a file that SavePublicKey wrote and
\* LoadPublicKey on one that SavePrivateKey wrote; either loader fails on a file
\* that holds no PEM block, LoadPrivateKey on a block that is not 64 bytes and
\* LoadPublicKey on one that is not 32 bytes.
C23_LoadersReject ==
    kload # None =>
        LET f == kload.read
            block == IF f.present THEN pemDecode(f.content) ELSE NilPtr
            fails == kload.ret.err # Nil /\ kload.ret.val = NilPtr
            saved == proc = "run" /\ kret = Nil
        IN /\ (saved /\ kcall.fn = "SavePublicKey" /\ kload.fn = "LoadPrivateKey") => fails
           /\ (saved /\ kcall.fn = "SavePrivateKey" /\ kload.fn = "LoadPublicKey") => fails
           /\ (kload.fn \in {"LoadPrivateKey", "LoadPublicKey"} /\ block = NilPtr) => fails
           /\ (kload.fn = "LoadPrivateKey" /\ block # NilPtr /\ block.v.Bytes.len # 64) => fails
           /\ (kload.fn = "LoadPublicKey" /\ block # NilPtr /\ block.v.Bytes.len # 32) => fails

\* C23 witness: SavePublicKey wrote a block of 64 bytes and LoadPrivateKey
\* refused the file.
C23_Witness ==
    /\ proc = "run"
    /\ kret = Nil
    /\ kcall.fn = "SavePublicKey"
    /\ kcall.arg.len = 64
    /\ kload # None
    /\ kload.fn = "LoadPrivateKey"
    /\ kload.read = File(Whole(SaveBytes(kcall)))
    /\ kload.ret.err # Nil

KeyDest == FileAt(dir, data, destPath)

\* C24: at every step of a Save function, and after the process is killed or
\* power is lost at any step, the path holds its complete prior content (or is
\* absent as before) or the complete new content.
C24_SaveCrashAtomic ==
    kpc # "idle" => KeyDest \in {prior, File(Whole(SaveBytes(kcall)))}

\* C25: when SavePrivateKey has returned nil, the file at the path has
\* permission bits 0600.
C25_OwnerOnly ==
    (proc = "run" /\ kpc = "done" /\ kcall.fn = "SavePrivateKey" /\ kret = Nil) =>
        (dir[destPath] # 0 /\ mode[dir[destPath]] = "0600")

\* C26: SaveSignature on a signature that is not 64 bytes long returns an
\* error at once and leaves every file as it was; LoadSignature on a file that
\* is not 64 bytes long returns an error and no signature.
C26_SignatureSizeChecked ==
    [][/\ (kpc = "start" /\ kpc' # "start"
             /\ kcall.fn = "SaveSignature" /\ kcall.arg.len # 64) =>
             (kpc' = "done" /\ kret' # Nil /\ dir' = dir /\ data' = data /\ mode' = mode)
       /\ (kload' # kload /\ kload'.fn = "LoadSignature"
             /\ kload'.read.present /\ kload'.read.content.len # 64) =>
             (kload'.ret.err # Nil /\ kload'.ret.val = NilPtr)]_vars

\* C26 witness: SaveSignature refused a signature of 63 bytes, and
\* LoadSignature then refused the file of another length that was at the path.
C26_Witness ==
    /\ kcall.fn = "SaveSignature"
    /\ kcall.arg.len = 63
    /\ kpc = "done"
    /\ kret # Nil
    /\ kload # None
    /\ kload.fn = "LoadSignature"
    /\ kload.read.present
    /\ kload.read.content.len # 64
    /\ kload.ret.err # Nil

\* C29: after a Save function returned nil, the matching loader returns what
\* was saved: a generated private key, a generated public key, a signature.
C29_RoundTrip ==
    (kload # None /\ proc = "run" /\ kret = Nil) =>
        /\ (kcall.fn = "SavePrivateKey" /\ kload.fn = "LoadPrivateKey"
              /\ \E k \in 1..MaxKeys : kcall.arg = GenerateKeyPair(k).v.PrivateKey) =>
              kload.ret = [val |-> kcall.arg, err |-> Nil]
        /\ (kcall.fn = "SavePublicKey" /\ kload.fn = "LoadPublicKey"
              /\ \E k \in 1..MaxKeys : kcall.arg = GenerateKeyPair(k).v.PublicKey) =>
              kload.ret = [val |-> kcall.arg, err |-> Nil]
        /\ (kcall.fn = "SaveSignature" /\ kload.fn = "LoadSignature") =>
              (kload.ret = [val |-> kcall.arg, err |-> Nil] /\ kload.ret.val.len = 64)

\* C29 witness: SavePrivateKey replaced the key file of another key, and
\* LoadPrivateKey returned the key that was saved.
C29_Witness ==
    /\ proc = "run"
    /\ kret = Nil
    /\ kcall.fn = "SavePrivateKey"
    /\ prior.present
    /\ prior # File(Whole(SaveBytes(kcall)))
    /\ pemDecode(prior.content) # NilPtr
    /\ kload # None
    /\ kload.fn = "LoadPrivateKey"
    /\ kload.ret = [val |-> kcall.arg, err |-> Nil]

\* ------------------------------------ config.Load, Validate, NewCollector
\* CategoryTimeoutMs is kept at the 64 bits of a Go int, as four 16-bit limbs
\* in two's complement, least significant first: GetCategoryTimeout multiplies
\* it.  The other integers are only compared.
Limb == 65536

\* The int64 of a small natural.
I64(n) == <<n % Limb, (n \div Limb) % Limb, 0, 0>>

\* Carries propagated, the carry out of the top limb dropped.
I64Norm(r) ==
    LET s2 == r[2] + (r[1] \div Limb)
        s3 == r[3] + (s2 \div Limb)
        s4 == r[4] + (s3 \div Limb)
    IN <<r[1] % Limb, s2 % Limb, s3 % Limb, s4 % Limb>>

I64Add(x, y) == I64Norm([i \in 1..4 |-> x[i] + y[i]])

\* x * c in 64 bits, for a c whose two 16-bit halves are below 2^15.
I64Mul(x, c) ==
    LET low == I64Norm([i \in 1..4 |-> x[i] * (c % Limb)])
        high == I64Norm([i \in 1..4 |-> x[i] * (c \div Limb)])
    IN I64Add(low, <<0, high[1], high[2], high[3]>>)

I64Positive(x) == x[4] < Limb \div 2 /\ x # <<0, 0, 0, 0>>

\* time.Millisecond, in nanoseconds
Millisecond == 1000000

\* A float64: a number of tenths, or NaN.
Float(t) == [nan |-> FALSE, tenths |-> t]
NaN == [nan |-> TRUE, tenths |-> 0]

\* a < b on float64: false when either side is NaN.
FloatLess(a, b) == ~a.nan /\ ~b.nan /\ a.tenths < b.tenths

ConfigFields ==
    {"CategoryTimeoutMs", "MaxGoroutines", "Phase1TimeoutMs", "Phase2TimeoutMs", "MaxTokens",
     "Temperature"}

\* config.Default(), the fields that Validate and the collector read
Default ==
    [PII |-> TRUE,
     CategoryTimeoutMs |-> I64(500),
     MaxGoroutines |-> 8,
     Phase1TimeoutMs |-> 2000,
     Phase2TimeoutMs |-> 3000,
     MaxTokens |-> 160,
     Temperature |-> Float(1)]

\* Config.Validate: nil, or the field of the first bound that is broken.
ConfigValidate(c) ==
    IF ~I64Positive(c.CategoryTimeoutMs) THEN "collect.category_timeout_ms"
    ELSE IF c.Phase1TimeoutMs <= 0 THEN "performance.phase1_timeout_ms"
    ELSE IF c.Phase2TimeoutMs <= 0 THEN "performance.phase2_timeout_ms"
    ELSE IF c.MaxGoroutines < 1 \/ c.MaxGoroutines > 32 THEN "performance.max_goroutines"
    ELSE IF c.MaxTokens < 1 \/ c.MaxTokens > 2048 THEN "llm.max_tokens"
    ELSE IF FloatLess(c.Temperature, Float(0)) \/ FloatLess(Float(20), c.Temperature)
         THEN "llm.temperature"
    ELSE Nil

\* Config.GetCategoryTimeout: time.Duration(ms) * time.Millisecond, an int64.
GetCategoryTimeout(c) == I64Mul(c.CategoryTimeoutMs, Millisecond)

\* The values a configuration file gives to each key: the edges of the bounds
\* of Validate, the float .nan, and a timeout of 9223372036855 ms.
HugeMs == <<23287, 31696, 2147, 0>>
FileValues(field) ==
    CASE field = "CategoryTimeoutMs" -> {I64(0), I64(1), HugeMs}
      [] field = "MaxGoroutines" -> {0, 1, 32, 33}
      [] field = "Phase1TimeoutMs" -> {0}
      [] field = "Phase2TimeoutMs" -> {0}
      [] field = "MaxTokens" -> {0, 2048, 2049}
      [] field = "Temperature" -> {Float(0 - 1), Float(20), Float(21), NaN}

\* A key of a YAML mapping: left out, or set to one of the values.
Key(field) == {[set |-> FALSE]} \cup {[set |-> TRUE, v |-> x] : x \in FileValues(field)}

\* The YAML documents: a mapping that sets some of the keys.
YAMLFiles ==
    [CategoryTimeoutMs : Key("CategoryTimeoutMs"),
     MaxGoroutines : Key("MaxGoroutines"),
     Phase1TimeoutMs : Key("Phase1TimeoutMs"),
     Phase2TimeoutMs : Key("Phase2TimeoutMs"),
     MaxTokens : Key("MaxTokens"),
     Temperature : Key("Temperature")]

\* What is at the configuration path: nothing, bytes that are no YAML, or a
\* YAML mapping.
ConfigFiles ==
    {[kind |-> "absent"], [kind |-> "garbage"]} \cup {[kind |-> "yaml", doc |-> m] : m \in YAMLFiles}

\* yaml.Unmarshal(data, cfg): the keys of the document overwrite cfg.
Unmarshal(doc, cfg) ==
    [f \in DOMAIN cfg |-> IF f \in ConfigFields /\ doc[f].set THEN doc[f].v ELSE cfg[f]]

\* config.Load
ConfigLoad(file) ==
    IF file.kind = "absent" THEN [cfg |-> NilPtr, err |-> "read"]
    ELSE IF file.kind = "garbage" THEN [cfg |-> NilPtr, err |-> "parse"]
    ELSE LET cfg == Unmarshal(file.doc, Default)
         IN IF ConfigValidate(cfg) # Nil
            THEN [cfg |-> NilPtr, err |-> "validation"]
            ELSE [cfg |-> Ptr(cfg), err |-> Nil]

\* config.LoadOrDefault
LoadOrDefault(file) ==
    IF ConfigLoad(file).err # Nil THEN Ptr(Default) ELSE ConfigLoad(file).cfg

InitConfig ==
    /\ cfile \in ConfigFiles
    /\ cload = None
    /\ collector = None
    /\ cstart = None
    /\ NoPool
    /\ NoCollect
    /\ NoWrite
    /\ NoSign
    /\ NoPlatform
    /\ NoKeys
    /\ NoEngine
    /\ NoWriters

ConfigFrame ==
    <<poolVars, harnessVars, blockedOnce, collectVars, writeVars, signVars, prev, platVars,
      keyVars, engineVars, cw>>

\* cfg, err := config.Load(path)
CfgLoad ==
    /\ cload = None
    /\ cload' = [fn |-> "Load", cfg |-> ConfigLoad(cfile).cfg, err |-> ConfigLoad(cfile).err]
    /\ UNCHANGED <<cfile, collector, cstart, ConfigFrame>>

\* cfg := config.LoadOrDefault(path)
CfgLoadOrDefault ==
    /\ cload = None
    /\ cload' = [fn |-> "LoadOrDefault", cfg |-> LoadOrDefault(cfile), err |-> Nil]
    /\ UNCHANGED <<cfile, collector, cstart, ConfigFrame>>

\* collection.NewCollector(cfg) on the Config that was loaded: the Collector,
\* or nil when platform.New() fails.
NewCollector ==
    /\ cload # None
    /\ cload.cfg # NilPtr
    /\ collector = None
    /\ \/ collector' = Ptr([PII |-> cload.cfg.v.PII,
                            timeout |-> GetCategoryTimeout(cload.cfg.v),
                            poolSize |-> cload.cfg.v.MaxGoroutines])
       \/ collector' = NilPtr
    /\ UNCHANGED <<cfile, cload, cstart, ConfigFrame>>

\* CollectAll up to the submit loop: NewBoundedPool(c.poolSize), and the
\* c.timeout that every category task hands to context.WithTimeout.
CollectAllStart ==
    /\ collector \notin {None, NilPtr}
    /\ cstart = None
    /\ cstart' = [workers |-> collector.v.poolSize, timeout |-> collector.v.timeout]
    /\ UNCHANGED <<cfile, cload, collector, ConfigFrame>>

NextConfig ==
    \/ CfgLoad
    \/ CfgLoadOrDefault
    \/ NewCollector
    \/ CollectAllStart

SpecConfig == InitConfig /\ [][NextConfig]_vars

\* C27: CollectAll builds its pool with a size in 1..32 and takes its
\* per-category contexts from a positive timeout.
C27_ValidatedBeforeUse ==
    cstart # None => (cstart.workers \in 1..32 /\ I64Positive(cstart.timeout))

\* C28: Load returns an error and no Config, or a Config within every bound of
\* Validate; LoadOrDefault returns a Config within every bound.
WithinBounds(c) ==
    /\ I64Positive(c.CategoryTimeoutMs)
    /\ c.Phase1TimeoutMs > 0
    /\ c.Phase2TimeoutMs > 0
    /\ c.MaxGoroutines \in 1..32
    /\ c.MaxTokens \in 1..2048
    /\ ~c.Temperature.nan
    /\ c.Temperature.tenths \in 0..20
C28_LoadedConfigValid ==
    cload # None =>
        /\ cload.fn = "Load" =>
              \/ cload.err # Nil /\ cload.cfg = NilPtr
              \/ cload.err = Nil /\ cload.cfg # NilPtr /\ WithinBounds(cload.cfg.v)
        /\ cload.fn = "LoadOrDefault" =>
              (cload.cfg # NilPtr /\ WithinBounds(cload.cfg.v))

\* ------------------------------------------------------- inference.Engine
\* An Engine and the llama.cpp library under it.  The library counts its
\* backend inits and frees and holds the models and contexts it has handed
\* out and not freed; handles are numbered as they are made, 0 is nil.
MaxCalls == 4

\* What the library does on a Load: it makes model and context, or fails to
\* load the model, or fails to create the context.
Outcomes == {"ok", "no model", "no context"}

\* The Engine NewEngine returns.
NewEngine == [loaded |-> FALSE, model |-> 0, ctx |-> 0]

\* The library with nothing initialised or allocated.
NoLlama == [inits |-> 0, frees |-> 0, models |-> {}, ctxs |-> {}, next |-> 1]

\* Engine.Load: the Engine, the library and the error after the call.
EngineLoad(e, ll, o) ==
    IF e.loaded THEN [e |-> e, ll |-> ll, err |-> Nil]
    ELSE LET l1 == [ll EXCEPT !.inits = @ + 1] IN
         IF o = "no model"
         THEN [e |-> [e EXCEPT !.model = 0], ll |-> l1, err |-> "failed to load model"]
         ELSE LET m == l1.next
                  l2 == [l1 EXCEPT !.models = @ \cup {m}, !.next = @ + 1]
              IN IF o = "no context"
                 THEN [e |-> [e EXCEPT !.model = m, !.ctx = 0],
                       ll |-> [l2 EXCEPT !.models = @ \ {m}],
                       err |-> "failed to create llama context"]
                 ELSE [e |-> [e EXCEPT !.model = m, !.ctx = l2.next, !.loaded = TRUE],
                       ll |-> [l2 EXCEPT !.ctxs = @ \cup {l2.next}, !.next = @ + 1],
                       err |-> Nil]

\* A Generate that does not look at the loaded flag.
EngineGenerate_NoCheck(e) == Nil

\* Engine.Generate: the error it returns (simple_generate always answers).
EngineGenerate(e) == IF ~e.loaded THEN "engine not loaded" ELSE Nil

\* Engine.Unload
EngineUnload(e, ll) ==
    IF ~e.loaded THEN [e |-> e, ll |-> ll, err |-> Nil]
    ELSE [e |-> [e EXCEPT !.ctx = 0, !.model = 0, !.loaded = FALSE],
          ll |-> [ll EXCEPT !.ctxs = @ \ {e.ctx}, !.models = @ \ {e.model},
                            !.frees = @ + 1],
          err |-> Nil]

\* One Engine and a caller that makes up to MaxCalls calls on it.  eret holds
\* the last call, its error, the number of calls made, and live: a Load has
\* returned nil and Unload has not been called since.
InitEngine ==
    /\ engines = <<NewEngine>>
    /\ llama = NoLlama
    /\ summ = None
    /\ eret = [op |-> "NewEngine", err |-> Nil, live |-> FALSE, calls |-> 0]
    /\ NoPool
    /\ NoCollect
    /\ NoWrite
    /\ NoSign
    /\ NoPlatform
    /\ NoKeys
    /\ NoConfig
    /\ NoWriters
    /\ prev = None

EngineFrame ==
    <<poolVars, harnessVars, blockedOnce, collectVars, writeVars, signVars, prev, platVars,
      keyVars, configVars, cw>>

\* engine.EngineLoad(ctx)
ELoad ==
    /\ eret.calls < MaxCalls
    /\ \E o \in Outcomes :
          LET r == EngineLoad(engines[1], llama, o) IN
          /\ engines' = [engines EXCEPT ![1] = r.e]
          /\ llama' = r.ll
          /\ eret' = [op |-> "Load", err |-> r.err, live |-> eret.live \/ r.err = Nil,
                      calls |-> eret.calls + 1]
    /\ UNCHANGED <<summ, EngineFrame>>

\* engine.EngineGenerate(ctx, prompt)
EGenerate ==
    /\ eret.calls < MaxCalls
    /\ eret' = [op |-> "Generate", err |-> EngineGenerate(engines[1]), live |-> eret.live,
                calls |-> eret.calls + 1]
    /\ UNCHANGED <<engines, llama, summ, EngineFrame>>

\* engine.EngineUnload()
EUnload ==
    /\ eret.calls < MaxCalls
    /\ LET r == EngineUnload(engines[1], llama) IN
          /\ engines' = [engines EXCEPT ![1] = r.e]
          /\ llama' = r.ll
          /\ eret' = [op |-> "Unload", err |-> r.err, live |-> FALSE,
                      calls |-> eret.calls + 1]
    /\ UNCHANGED <<summ, EngineFrame>>

NextEngine == ELoad \/ EGenerate \/ EUnload

SpecEngine == InitEngine /\ [][NextEngine]_vars

\* Engine.IsLoaded
IsLoaded(e) == e.loaded

\* C35: Generate returns nil only on an Engine on which a Load has succeeded
\* with no Unload since, and an error otherwise; Load on a loaded Engine and
\* Unload on an unloaded one return nil and change nothing; after Unload the
\* Engine is not loaded.
C35_GenerateNeedsLoad ==
    /\ [](eret.op = "Generate" => (eret.err = Nil <=> eret.live))
    /\ [](eret.op = "Unload" => (eret.err = Nil /\ ~IsLoaded(engines[1])))
    /\ [][(eret'.calls # eret.calls /\ eret'.op = "Load" /\ IsLoaded(engines[1])) =>
             (eret'.err = Nil /\ engines' = engines /\ llama' = llama)]_vars
    /\ [][(eret'.calls # eret.calls /\ eret'.op = "Unload" /\ ~IsLoaded(engines[1])) =>
             (eret'.err = Nil /\ engines' = engines /\ llama' = llama)]_vars

\* C35 witness: Generate has failed on the Engine after an Unload that
\* followed a successful Load.
C35_Witness ==
    /\ eret.op = "Generate"
    /\ eret.err # Nil
    /\ llama.frees = 1
    /\ ~IsLoaded(engines[1])

\* C40 (as claimed): after an Unload nothing the Engine acquired is still
\* allocated: every backend init is matched by a backend free and no model
\* or context is left, also when a Load before it failed.
C40_UnloadReleasesAll ==
    eret.op = "Unload" =>
        (llama.inits = llama.frees /\ llama.models = {} /\ llama.ctxs = {})

\* ---------------------------------------------------- summarizer.Summarizer
\* A Summarizer and a caller that makes up to MaxCalls calls of Summarize and
\* Close.  engines holds every Engine made, s.engine is the number of one.
\* NewSummarizer
InitSummarizer ==
    /\ engines = <<NewEngine>>
    /\ llama = NoLlama
    /\ summ = [engine |-> 1]
    /\ eret = [op |-> "NewSummarizer", err |-> Nil, live |-> FALSE, calls |-> 0]
    /\ NoPool
    /\ NoCollect
    /\ NoWrite
    /\ NoSign
    /\ NoPlatform
    /\ NoKeys
    /\ NoConfig
    /\ NoWriters
    /\ prev = None

\* s.updateEngineWithFacts(facts): a new Engine, not loaded.
updateEngineWithFacts(es) == Append(es, NewEngine)

\* Summarizer.Summarize(ctx, facts): nil facts are refused; otherwise s.engine
\* is replaced by a new Engine, which is loaded and asked to generate.  The
\* steps after Generate work on its fixed answer and do not fail.
Summarize ==
    /\ eret.calls < MaxCalls
    /\ \E nilFacts \in BOOLEAN, o \in Outcomes :
          IF nilFacts
          THEN /\ eret' = [eret EXCEPT !.op = "Summarize", !.err = "facts cannot be nil",
                                       !.calls = @ + 1]
               /\ UNCHANGED <<engines, llama, summ>>
          ELSE LET es == updateEngineWithFacts(engines)
                   n == Len(es)
                   r == EngineLoad(es[n], llama, o)
               IN /\ summ' = [engine |-> n]
                  /\ engines' = [es EXCEPT ![n] = r.e]
                  /\ llama' = r.ll
                  /\ eret' = [op |-> "Summarize",
                              err |-> IF r.err # Nil THEN "model load failed"
                                      ELSE EngineGenerate(r.e),
                              live |-> r.err = Nil,
                              calls |-> eret.calls + 1]
    /\ UNCHANGED EngineFrame

\* Summarizer.Close: s.engine.Unload()
Close ==
    /\ eret.calls < MaxCalls
    /\ LET r == EngineUnload(engines[summ.engine], llama) IN
          /\ engines' = [engines EXCEPT ![summ.engine] = r.e]
          /\ llama' = r.ll
          /\ eret' = [op |-> "Close", err |-> r.err, live |-> FALSE,
                      calls |-> eret.calls + 1]
    /\ UNCHANGED <<summ, EngineFrame>>

NextSummarizer == Summarize \/ Close

SpecSummarizer == InitSummarizer /\ [][NextSummarizer]_vars

\* The engines that hold a model and a context.
LoadedEngines == {k \in DOMAIN engines : IsLoaded(engines[k])}

\* C36 (as claimed): over successive Summarize calls the model is loaded once
\* and the loaded engine is used again, so at no time is more than one model
\* held; and after Close no engine the Summarizer loaded is still loaded.
C36_LoadedOnceClosedAll ==
    /\ Cardinality(LoadedEngines) <= 1
    /\ Cardinality(llama.models) <= 1
    /\ eret.op = "Close" => (LoadedEngines = {} /\ llama.models = {} /\ llama.ctxs = {})

\* ------------------------------------ two WriteAtomic calls on one path
\* Two goroutines call WriteAtomic on the same path with different data.
\* They share the directory and the inodes; each has its own open file with
\* its own offset.  cw[w] is the call of writer w: the statement it is at,
\* its data, the inode behind its tempFile (0 when not open), its file
\* offset, its returned error, and what the temp path held when it renamed it.
Writers == {1, 2}

\* A write of one byte at offset off: bytes beyond the end of the file are
\* added, a gap before them reads as zeros.
WriteAt(content, off, b) ==
    [k \in 1..(IF off + 1 > Len(content) THEN off + 1 ELSE Len(content)) |->
        IF k = off + 1 THEN b
        ELSE IF k <= Len(content) THEN content[k] ELSE 0]

\* The inode a new file gets: one that no name and no open file refers to.
FreshInode ==
    CHOOSE i \in Inodes :
        /\ \A n \in PathNames : dir[n] # i
        /\ \A w \in Writers : cw[w].fd # i

InitWriters ==
    /\ \E p \in Payloads, q \in Payloads :
          /\ p # <<>> /\ q # <<>> /\ p # q
          /\ cw = [w \in Writers |->
                     [pc |-> "open", data |-> IF w = 1 THEN p ELSE q, fd |-> 0, off |-> 0,
                      err |-> "pending", installed |-> NoFile]]
    /\ wpc = "idle"
    /\ proc = "run"
    /\ fd = 0
    /\ payload = <<>>
    /\ written = 0
    /\ werr = Nil
    /\ prior \in {NoFile} \cup {File(c) : c \in SeqsUpTo(1..MaxByte, 1)}
    /\ dirExists = TRUE
    /\ dir = [n \in PathNames |-> IF n = "path" /\ prior.present THEN 1 ELSE 0]
    /\ ddir = dir
    /\ data = [i \in Inodes |-> IF i = 1 /\ prior.present THEN prior.content ELSE <<>>]
    /\ synced = data
    /\ rmerr = FALSE
    /\ NoPool
    /\ NoCollect
    /\ NoSign
    /\ NoPlatform
    /\ NoKeys
    /\ NoConfig
    /\ NoEngine
    /\ prev = None

WritersFrame ==
    <<poolVars, harnessVars, blockedOnce, collectVars, signVars, prev, platVars, keyVars,
      configVars, engineVars, wpc, proc, fd, payload, written, werr, prior, dirExists, ddir,
      synced, rmerr>>

\* Writer w goes on to statement p, or returns err.
Goto(w, p) == cw' = [cw EXCEPT ![w].pc = p]
Fail(w, err) == cw' = [cw EXCEPT ![w].pc = "done", ![w].err = err, ![w].fd = 0]

\* os.MkdirAll on the existing directory, then
\* os.OpenFile(tempPath, O_WRONLY|O_CREATE|O_TRUNC, perm): the file at the
\* temp path is emptied, whoever made it, or a new one is made.
W2OpenFile(w) ==
    /\ cw[w].pc = "open"
    /\ \/ /\ IF dir[tempPath] # 0
             THEN /\ cw' = [cw EXCEPT ![w].pc = "write", ![w].fd = dir[tempPath]]
                  /\ data' = [data EXCEPT ![dir[tempPath]] = <<>>]
                  /\ UNCHANGED dir
             ELSE /\ cw' = [cw EXCEPT ![w].pc = "write", ![w].fd = FreshInode]
                  /\ dir' = [dir EXCEPT ![tempPath] = FreshInode]
                  /\ data' = [data EXCEPT ![FreshInode] = <<>>]
       \/ Fail(w, "open") /\ UNCHANGED <<dir, data>>
    /\ UNCHANGED WritersFrame

\* tempFile.Write(data) under way: the next byte goes in at the file offset.
W2Write(w) ==
    /\ cw[w].pc = "write"
    /\ cw[w].off < Len(cw[w].data)
    /\ data' = [data EXCEPT ![cw[w].fd] = WriteAt(@, cw[w].off, cw[w].data[cw[w].off + 1])]
    /\ cw' = [cw EXCEPT ![w].off = @ + 1]
    /\ UNCHANGED <<dir, WritersFrame>>

\* tempFile.Write(data) returns nil.
W2WriteOk(w) ==
    /\ cw[w].pc = "write"
    /\ cw[w].off = Len(cw[w].data)
    /\ Goto(w, "sync")
    /\ UNCHANGED <<dir, data, WritersFrame>>

\* tempFile.Write or tempFile.Sync fails: tempFile.Close(),
\* os.Remove(tempPath), return the error.  The name goes, whoever made it.
W2Cleanup(w) ==
    /\ cw[w].pc \in {"write", "sync"}
    /\ Fail(w, cw[w].pc)
    /\ dir' = Remove(dir, tempPath)
    /\ UNCHANGED <<data, WritersFrame>>

\* tempFile.Sync() returns nil.
W2Sync(w) ==
    /\ cw[w].pc = "sync"
    /\ Goto(w, "close")
    /\ UNCHANGED <<dir, data, WritersFrame>>

\* tempFile.Close(): nil, or an error and os.Remove(tempPath).
W2Close(w) ==
    /\ cw[w].pc = "close"
    /\ \/ /\ cw' = [cw EXCEPT ![w].pc = "rename", ![w].fd = 0]
          /\ UNCHANGED dir
       \/ /\ Fail(w, "close")
          /\ dir' = Remove(dir, tempPath)
    /\ UNCHANGED <<data, WritersFrame>>

\* os.Rename(tempPath, path): it fails when the temp path has no entry (the
\* other call renamed or removed it); then os.Remove(tempPath), return.
W2Rename(w) ==
    /\ cw[w].pc = "rename"
    /\ IF dir[tempPath] = 0
       THEN /\ Fail(w, "rename")
            /\ UNCHANGED dir
       ELSE /\ cw' = [cw EXCEPT ![w].pc = "syncdir",
                                ![w].installed = FileAt(dir, data, tempPath)]
            /\ dir' = Rename(dir, tempPath, destPath)
    /\ UNCHANGED <<data, WritersFrame>>

\* syncDirectory(dir): return nil, or the warning.
W2SyncDirectory(w) ==
    /\ cw[w].pc = "syncdir"
    /\ \E err \in {Nil, "syncdir"} : cw' = [cw EXCEPT ![w].pc = "done", ![w].err = err]
    /\ UNCHANGED <<dir, data, WritersFrame>>

NextWriters ==
    \E w \in Writers :
        \/ W2OpenFile(w)
        \/ W2Write(w)
        \/ W2WriteOk(w)
        \/ W2Cleanup(w)
        \/ W2Sync(w)
        \/ W2Close(w)
        \/ W2Rename(w)
        \/ W2SyncDirectory(w)

SpecWriters == InitWriters /\ [][NextWriters]_vars

\* C33 (as claimed): with two concurrent calls on one path the destination
\* never holds a mixture or a truncated file: it holds what it held before or
\* the complete data of one call; once a call has renamed, it holds the
\* complete data of one of the two; and a call that returns nil installed a
\* temp file that held its own data.
C33_ConcurrentCallsAtomic ==
    /\ Dest \in {prior, File(cw[1].data), File(cw[2].data)}
    /\ (\E w \in Writers : cw[w].installed # NoFile) =>
           Dest \in {File(cw[1].data), File(cw[2].data)}
    /\ \A w \in Writers :
           (cw[w].pc = "done" /\ cw[w].err = Nil) => cw[w].installed = File(cw[w].data)
====
